---- MODULE Spec2Model ----
(***************************************************************************)
(* Call-screening webhook service (vathakkar/ai-voice-concierge).          *)
(*                                                                         *)
(* The model follows src/main.py (the four Twilio webhook handlers and     *)
(* the global sessions map), src/bot.py (VoiceConciergeBot) and            *)
(* src/database.py (the call / conversation log and the exception list).   *)
(*                                                                         *)
(* Every handler is `async def` and awaits only request.form(), before it  *)
(* reads or writes any shared state; bot.get_response() and the database   *)
(* functions are synchronous calls.  On the single asyncio event loop a    *)
(* handler body therefore runs without interleaving, and each handler is   *)
(* one atomic action in Spec.  SpecLoop shows the loop itself: handlers    *)
(* suspended in request.form(), and the processing step split where it     *)
(* enters the model invocation.                                            *)
(*                                                                         *)
(* Text is a sequence of one-character strings, so that `in`, replace()    *)
(* and strip() are computed as Python computes them.  A fixed message of   *)
(* the program is a one-element sequence holding the whole message.        *)
(*                                                                         *)
(* In Spec the SQL store executes every statement (no connection errors);  *)
(* in SpecStore a statement of the log store may raise.  The language      *)
(* model is fallible: it answers with a text, raises, or answers with no   *)
(* content.                                                                *)
(***************************************************************************)
EXTENDS Integers, Sequences, FiniteSets, TLC

VARIABLES
    sessions,                 \* main.py:42   session_id -> session dict (with its bot)
    calls,                    \* table calls; row id = index
    conversation,             \* table conversation, in insertion order
    exception_phone_numbers,  \* table exception_phone_numbers; row id = index
    response,                 \* the TwiML script returned by the last handler
    finalize_writes,          \* per call id: log_final_decision updates so far (observer)
    invocations,              \* per session id: number of bot.get_response() calls (observer)
    results,                  \* the exception-list operations applied, with what they returned (observer)
    event_loop                \* the asyncio event loop: suspended handlers, and the one it is blocked in

vars == <<sessions, calls, conversation, exception_phone_numbers, response,
          finalize_writes, invocations, results, event_loop>>

---------------------------------------------------------------------------
\* Bounds of the model

\* pieces concatenated into a phone number given to normalize_phone_number
MaxPhonePieces == 3

\* exception-list operations applied in one behaviour
MaxOps == 4
MaxTasks == 2

\* turns a call has had before the turn explored
MaxPriorTurns == 3

\* rows of table calls (each session is created together with a call row)
MaxCalls == 1
\* model invocations, over all sessions
MaxTurns == 1
\* pieces concatenated into a model reply in SpecReply
MaxPieces == 2

---------------------------------------------------------------------------
\* Python values

\* None, where a text is expected
PyNone == <<"<None>">>
\* SQL NULL in a nullable text column
Null == <<>>
\* datetime.utcnow().isoformat(): some non-null timestamp
UtcNow == <<"utcnow">>

Whitespace == {" ", "\t", "\n", "\r"}

MinOf(S) == CHOOSE x \in S : \A y \in S : x <= y
MaxOf(S) == CHOOSE x \in S : \A y \in S : x >= y

\* str.strip()
Strip(s) ==
    LET keep == {i \in 1..Len(s) : s[i] \notin Whitespace}
    IN  IF keep = {} THEN <<>> ELSE SubSeq(s, MinOf(keep), MaxOf(keep))

\* s[i:i+len(m)] == m
MatchAt(s, m, i) ==
    /\ i + Len(m) - 1 <= Len(s)
    /\ \A k \in 1..Len(m) : s[i + k - 1] = m[k]

\* m in s   (m non-empty)
Contains(s, m) == \E i \in 1..Len(s) : MatchAt(s, m, i)

\* s.replace(m, ""): one left-to-right pass over non-overlapping occurrences
RECURSIVE ReplaceFrom(_, _, _)
ReplaceFrom(s, m, i) ==
    IF i > Len(s) THEN <<>>
    ELSE IF MatchAt(s, m, i) THEN ReplaceFrom(s, m, i + Len(m))
    ELSE <<s[i]>> \o ReplaceFrom(s, m, i + 1)

Replace(s, m) == ReplaceFrom(s, m, 1)

\* s[:n]
Slice(s, n) == SubSeq(s, 1, IF Len(s) < n THEN Len(s) ELSE n)

UpperCase == <<"A","B","C","D","E","F","G","H","I","J","K","L","M",
               "N","O","P","Q","R","S","T","U","V","W","X","Y","Z">>
LowerCase == <<"a","b","c","d","e","f","g","h","i","j","k","l","m",
               "n","o","p","q","r","s","t","u","v","w","x","y","z">>

\* str.lower()
Lower(s) ==
    [i \in 1..Len(s) |->
        IF \E k \in 1..26 : UpperCase[k] = s[i]
        THEN LowerCase[CHOOSE k \in 1..26 : UpperCase[k] = s[i]]
        ELSE s[i]]

Digits == <<"0","1","2","3","4","5","6","7","8","9">>
IsDigit(c) == \E k \in 1..10 : Digits[k] = c
DigitVal(c) == (CHOOSE k \in 1..10 : Digits[k] = c) - 1

\* int(s) raises ValueError unless s is a decimal numeral
IntRaises(s) == s = <<>> \/ \E i \in 1..Len(s) : ~IsDigit(s[i])

RECURSIVE IntOf(_)
IntOf(s) == IF s = <<>> THEN 0 ELSE 10 * IntOf(SubSeq(s, 1, Len(s) - 1)) + DigitVal(s[Len(s)])

---------------------------------------------------------------------------
\* The decision markers and the model replies

TRANSFER == <<"{","T","R","A","N","S","F","E","R","}">>
END_CALL == <<"{","E","N","D"," ","C","A","L","L","}">>

\* a variant that looks for {END CALL} first
DecisionEndFirst(ai_reply) ==
    IF Contains(ai_reply, END_CALL) THEN "end"
    ELSE IF Contains(ai_reply, TRANSFER) THEN "transfer"
    ELSE "continue"

\* main.py:311, 330, 347: the branch twilio_process_ai takes on a reply
Decision(ai_reply) ==
    IF Contains(ai_reply, TRANSFER) THEN "transfer"
    ELSE IF Contains(ai_reply, END_CALL) THEN "end"
    ELSE "continue"

\* main.py:312, 331, 352: the text placed in <Say>
CleanReply(ai_reply) ==
    IF Decision(ai_reply) = "transfer" THEN Strip(Replace(ai_reply, TRANSFER))
    ELSE IF Decision(ai_reply) = "end" THEN Strip(Replace(ai_reply, END_CALL))
    ELSE ai_reply

\* replies the language model gives in Spec
ReplyTransfer == <<"O","k","."," ">> \o TRANSFER
ReplyEnd      == <<"T","e","x","t","."," ">> \o END_CALL
ReplyContinue == <<"W","h","y","?">>

ModelReplies == {ReplyTransfer, ReplyEnd, ReplyContinue}

\* what client.chat.completions.create / message.content can do:
\* return a text, raise, return no content
Replied(r) == [kind |-> "reply", text |-> r]
Raised == [kind |-> "raise", text |-> PyNone]
NoContent == [kind |-> "none", text |-> PyNone]

ModelOutcomes == {Replied(r) : r \in ModelReplies} \cup {Raised}

---------------------------------------------------------------------------
\* src/database.py: the log store

\* log_new_call: INSERT INTO calls (caller_id, start_time); returns the new row id
log_new_call(cs, caller_id) ==
    Append(cs, [caller_id |-> caller_id, start_time |-> UtcNow, end_time |-> Null,
                final_decision |-> Null, summary |-> Null, outcome |-> Null])

\* the id log_new_call returns (rows are never deleted)
new_call_id(cs) == Len(cs) + 1

\* a variant that keeps a summary and an outcome already on the row when the
\* write brings none
log_final_decision_coalesce(cs, call_id, final_decision, summary, outcome) ==
    [cs EXCEPT ![call_id] = [@ EXCEPT !.end_time = UtcNow,
                                      !.final_decision = final_decision,
                                      !.summary = IF summary = Null THEN @ ELSE summary,
                                      !.outcome = IF outcome = Null THEN @ ELSE outcome]]
\* a variant that leaves final_decision as it was
log_final_decision_keep_null(cs, call_id, final_decision, summary, outcome) ==
    [cs EXCEPT ![call_id] = [@ EXCEPT !.end_time = UtcNow,
                                      !.summary = summary,
                                      !.outcome = outcome]]

\* log_final_decision: UPDATE calls SET end_time, final_decision, summary, outcome WHERE id
log_final_decision(cs, call_id, final_decision, summary, outcome) ==
    [cs EXCEPT ![call_id] = [@ EXCEPT !.end_time = UtcNow,
                                      !.final_decision = final_decision,
                                      !.summary = summary,
                                      !.outcome = outcome]]

\* log_conversation_turn: INSERT INTO conversation
log_conversation_turn(conv, call_id, turn_index, speaker, text) ==
    Append(conv, [call_id |-> call_id, turn_index |-> turn_index,
                  speaker |-> speaker, text |-> text])

---------------------------------------------------------------------------
\* src/database.py: the exception list

\* re.sub(r'\D', '', phone_number)
DigitsOf(phone_number) == SelectSeq(phone_number, IsDigit)

\* a variant that only strips the formatting and prepends "+"
normalize_phone_number_plus(phone_number) == <<"+">> \o DigitsOf(phone_number)

normalize_phone_number(phone_number) ==
    LET digits == DigitsOf(phone_number)
    IN  IF Len(digits) = 11 /\ digits[1] = "1" THEN <<"+">> \o digits
        ELSE IF Len(digits) = 10 THEN <<"+", "1">> \o digits
        ELSE IF Len(digits) > 1 /\ digits[1] = "+" THEN digits
        ELSE <<"+">> \o digits

\* a variant that looks the number up as given
is_exception_phone_number_raw(table, phone_number) ==
    \E i \in 1..Len(table) :
        table[i].phone_number = phone_number /\ table[i].is_active

\* is_exception_phone_number: truthy iff SELECT ... WHERE phone_number = ? AND
\* is_active = 1 returns a row for the normalized number
is_exception_phone_number(table, phone_number) ==
    \E i \in 1..Len(table) :
        /\ table[i].phone_number = normalize_phone_number(phone_number)
        /\ table[i].is_active

\* a variant that lets a soft-deleted row be added again
add_refused_active(table, phone_number) ==
    \E i \in 1..Len(table) :
        /\ table[i].phone_number = normalize_phone_number(phone_number)
        /\ table[i].is_active

\* add_exception_phone_number returns False when a row with the number exists
add_refused(table, phone_number) ==
    \E i \in 1..Len(table) :
        table[i].phone_number = normalize_phone_number(phone_number)

add_exception_phone_number(table, phone_number, contact_name, category) ==
    IF add_refused(table, phone_number) THEN table
    ELSE Append(table, [phone_number |-> normalize_phone_number(phone_number),
                        contact_name |-> contact_name, category |-> category,
                        added_date |-> UtcNow, is_active |-> TRUE])

\* remove_exception_phone_number: UPDATE ... SET is_active = 0 WHERE phone_number = ?
remove_exception_phone_number(table, phone_number) ==
    [i \in 1..Len(table) |->
        IF table[i].phone_number = normalize_phone_number(phone_number)
        THEN [table[i] EXCEPT !.is_active = FALSE]
        ELSE table[i]]

\* the dict built from a row: SELECT id, phone_number, contact_name, category, added_date
ContactOf(table, i) ==
    [id |-> i, phone_number |-> table[i].phone_number,
     contact_name |-> table[i].contact_name, category |-> table[i].category,
     added_date |-> table[i].added_date]

\* `return None` of is_exception_phone_number, in the shape of a contact
NoContact ==
    [id |-> 0, phone_number |-> PyNone, contact_name |-> PyNone, category |-> PyNone,
     added_date |-> PyNone]

\* a variant that also returns soft-deleted rows
exception_contact_of_any(table, phone_number) ==
    LET rows == {i \in 1..Len(table) :
                    table[i].phone_number = normalize_phone_number(phone_number)}
    IN  IF rows = {} THEN NoContact ELSE ContactOf(table, MinOf(rows))

\* what is_exception_phone_number returns: the dict of the first row of
\* SELECT ... WHERE phone_number = ? AND is_active = 1, or None
exception_contact_of(table, phone_number) ==
    LET rows == {i \in 1..Len(table) :
                    /\ table[i].phone_number = normalize_phone_number(phone_number)
                    /\ table[i].is_active}
    IN  IF rows = {} THEN NoContact ELSE ContactOf(table, MinOf(rows))

\* remove_exception_phone_number: c.rowcount of its UPDATE
rows_affected(table, phone_number) ==
    Cardinality({i \in 1..Len(table) :
                    table[i].phone_number = normalize_phone_number(phone_number)})

\* add_exception_simple.py:157-158, dashboard.py:81-82:
\* `if not phone.startswith('+'): phone = '+' + phone`
PlusPrefixed(phone) ==
    IF Len(phone) > 0 /\ phone[1] = "+" THEN phone ELSE <<"+">> \o phone

\* add_exception_simple.py restore_exception_direct:
\* UPDATE ... SET is_active = 1 WHERE phone_number = ? AND is_active = 0
restore_exception_direct(table, phone_number) ==
    [i \in 1..Len(table) |->
        IF table[i].phone_number = PlusPrefixed(phone_number) /\ ~table[i].is_active
        THEN [table[i] EXCEPT !.is_active = TRUE]
        ELSE table[i]]

\* dashboard.py restore_exception: UPDATE ... SET is_active = 1 WHERE phone_number = ?
restore_exception(table, phone) ==
    [i \in 1..Len(table) |->
        IF table[i].phone_number = PlusPrefixed(phone)
        THEN [table[i] EXCEPT !.is_active = TRUE]
        ELSE table[i]]

---------------------------------------------------------------------------
\* src/bot.py: VoiceConciergeBot

\* __init__
NewBot == [history |-> <<>>, transfer_decision |-> FALSE, voicemail_decision |-> FALSE]

\* a variant that leaves the history as it was
add_user_message_skipped(bot, text) == bot
\* bot.py:65-72
add_user_message(bot, text) ==
    [bot EXCEPT !.history = Append(@, [role |-> "user", content |-> text])]

add_bot_message(bot, text) ==
    [bot EXCEPT !.history = Append(@, [role |-> "assistant", content |-> text])]

WordTransfer  == <<"t","r","a","n","s","f","e","r">>
WordVoicemail == <<"v","o","i","c","e","m","a","i","l">>
WordMessage   == <<"m","e","s","s","a","g","e">>

_analyze_response(bot, reply) ==
    LET reply_lower == Lower(reply)
    IN  IF Contains(reply_lower, WordTransfer)
        THEN [bot EXCEPT !.transfer_decision = TRUE]
        ELSE IF Contains(reply_lower, WordVoicemail) \/ Contains(reply_lower, WordMessage)
        THEN [bot EXCEPT !.voicemail_decision = TRUE]
        ELSE bot

\* get_response, when the model returned the text `reply`
get_response(bot, reply) == _analyze_response(add_bot_message(bot, reply), reply)

---------------------------------------------------------------------------
\* Session tokens and voice scripts

\* request.query_params.get("session_id") is None
NoSession == <<>>
\* a token the service never issued
BogusSession == <<"bogus", 0>>
\* str(uuid.uuid4()): a token not in use
uuid4(ss) == <<"uuid4", Cardinality(DOMAIN ss) + 1>>

\* a variant whose session starts at turn index 1
NewSessionTurnOne(call_id) ==
    [bot |-> NewBot, turn_index |-> 1, call_id |-> call_id, pending_speech |-> PyNone]
\* sessions[session_id] = {"bot": bot, "turn_index": 0, "call_id": call_id}
NewSession(call_id) ==
    [bot |-> NewBot, turn_index |-> 0, call_id |-> call_id, pending_speech |-> PyNone]

NoRetry == 0 - 1
Url(path, session_id, retry) == [path |-> path, session_id |-> session_id, retry |-> retry]
NoUrl == Url("", NoSession, NoRetry)
NoDial == [number |-> "", action |-> NoUrl]
REAL_PHONE_NUMBER == "REAL_PHONE_NUMBER"

\* a <Response>: its <Say> text, <Gather action>, <Redirect>, <Dial> and <Hangup/>
Script(say, gather, redirect, dial, hangup) ==
    [say |-> say, gather |-> gather, redirect |-> redirect, dial |-> dial, hangup |-> hangup]

SayTransferring == <<"Transferring you now.">>
SayGreeting     == <<"Hi, I am a virtual assistant. Tell me how can Vansh help you today? I will analyze your response and see if I can get a hold of him.">>
SayOneMoment    == <<"One moment.">>
SayRepeat       == <<"I didn't hear anything. Can you please repeat how I can help?">>
SayNoSpeechBye  == <<"Sorry, I still didn't hear anything. Goodbye!">>
SayError        == <<"Sorry, there was an error. Goodbye!">>
SayOnAnotherCall == <<"Unfortunately Vansh is on another call. Please text him and he will get back to you as soon as possible.">>

\* main.py:100-105
DirectTransferScript == Script(SayTransferring, NoUrl, NoUrl,
                               [number |-> REAL_PHONE_NUMBER, action |-> NoUrl], FALSE)
\* a variant whose callback address starts the no-speech count at 1
GreetingScriptRetry1(session_id) ==
    LET action_url == Url("/twilio/ai-response", session_id, 1)
    IN  Script(SayGreeting, action_url, action_url, NoDial, FALSE)
\* main.py:127-137
GreetingScript(session_id) ==
    LET action_url == Url("/twilio/ai-response", session_id, 0)
    IN  Script(SayGreeting, action_url, action_url, NoDial, FALSE)
\* main.py:195-201
HoldScript(session_id) ==
    Script(SayOneMoment, NoUrl, Url("/twilio/process-ai", session_id, NoRetry), NoDial, FALSE)
\* main.py:207-215 and 290-298
RepromptScript(session_id) ==
    LET action_url == Url("/twilio/ai-response", session_id, 1)
    IN  Script(SayRepeat, action_url, action_url, NoDial, FALSE)
\* main.py:219-223
NoSpeechByeScript == Script(SayNoSpeechBye, NoUrl, NoUrl, NoDial, FALSE)
\* a variant in which the exception leaves the handler: no script is returned
ErrorScriptNotCaught == Script(PyNone, NoUrl, NoUrl, NoDial, FALSE)
\* main.py:230-234, 275-279, 365-369
ErrorScript == Script(SayError, NoUrl, NoUrl, NoDial, FALSE)
\* a variant whose dial has no action address
TransferScriptNoAction(session_id, clean_reply) ==
    Script(clean_reply, NoUrl, NoUrl, [number |-> REAL_PHONE_NUMBER, action |-> NoUrl], FALSE)
\* main.py:313-319
TransferScript(session_id, clean_reply) ==
    Script(clean_reply, NoUrl, NoUrl,
           [number |-> REAL_PHONE_NUMBER,
            action |-> Url("/twilio/transfer-fallback", session_id, NoRetry)], FALSE)
\* main.py:332-336
EndScript(clean_reply) == Script(clean_reply, NoUrl, NoUrl, NoDial, FALSE)
\* a variant that ends the call once the caller has spoken twice
ContinueScriptTwoTurns(session_id, ai_reply) ==
    IF Len(SelectSeq(sessions[session_id].bot.history, LAMBDA msg : msg.role = "user")) >= 1
    THEN Script(ai_reply, NoUrl, NoUrl, NoDial, FALSE)
    ELSE LET action_url == Url("/twilio/ai-response", session_id, 0)
         IN  Script(ai_reply, action_url, action_url, NoDial, FALSE)
\* a variant whose callback address keeps the no-speech count at 1
ContinueScriptRetry1(session_id, ai_reply) ==
    LET action_url == Url("/twilio/ai-response", session_id, 1)
    IN  Script(ai_reply, action_url, action_url, NoDial, FALSE)
\* main.py:348-356
ContinueScript(session_id, ai_reply) ==
    LET action_url == Url("/twilio/ai-response", session_id, 0)
    IN  Script(ai_reply, action_url, action_url, NoDial, FALSE)
\* main.py:394-398
HangupScript == Script(PyNone, NoUrl, NoUrl, NoDial, TRUE)
\* main.py:401-406
TransferFailedScript == Script(SayOnAnotherCall, NoUrl, NoUrl, NoDial, TRUE)

---------------------------------------------------------------------------
\* Webhook inputs

\* one number written three ways, and another number
MomPlain  == <<"5","5","5","1","2","3","4","5","6","7">>
MomPretty == <<"(","5","5","5",")"," ","1","2","3","-","4","5","6","7">>
MomE164   == <<"+","1","5","5","5","1","2","3","4","5","6","7">>
ExE164    == <<"+","1","5","5","5","0","0","0","1","1","1","1">>

\* form "From" of the carrier
Callers == {MomPretty, ExE164}

\* the exception list the service runs with: Mom was added; Ex was added and
\* later removed (soft-deleted)
StoredExceptions ==
    remove_exception_phone_number(
        add_exception_phone_number(
            add_exception_phone_number(<<>>, MomPlain, <<"Mom">>, <<"family">>),
            ExE164, <<"Ex">>, <<"friends">>),
        ExE164)
\* form "From" of a speech callback (read only when the session is missing)
CallbackCallers == {ExE164}
\* form "SpeechResult": nothing, blanks only, an utterance
SpeechResults == {<<>>, <<" ">>, <<"h","i">>}
\* query parameter "retry"
RetryParams == {<<"0">>, <<"1">>, <<"x">>}
\* form "DialCallStatus"
DialCallStatuses == {"completed", "no-answer"}
\* query parameter "session_id": absent, unknown, or a token the service issued
SessionParams == {NoSession, BogusSession} \cup DOMAIN sessions

\* `if call_id:`
Truthy(call_id) == call_id # 0

\* `not session_id or session_id not in sessions`
Missing(session_id) == session_id = NoSession \/ session_id \notin DOMAIN sessions

RECURSIVE SumFun(_)
SumFun(f) ==
    IF DOMAIN f = {} THEN 0
    ELSE LET k == CHOOSE k \in DOMAIN f : TRUE
         IN  f[k] + SumFun([j \in DOMAIN f \ {k} |-> f[j]])

\* the model explores behaviours within this budget
TurnBudget == SumFun(invocations) < MaxTurns

\* the observer finalize_writes counts zero, one, many
OneMore(n) == IF n = "zero" THEN "one" ELSE "many"

---------------------------------------------------------------------------
\* src/main.py: the webhook handlers

\* a handler frame: the request it serves and its local variables
Frame(n, path, session_id, user_speech, turn_index, call_id) ==
    [n |-> n, path |-> path, session_id |-> session_id, user_speech |-> user_speech,
     turn_index |-> turn_index, call_id |-> call_id]
NoTask == Frame(0, "", NoSession, PyNone, 0, 0)
\* no handler is suspended and the loop is not inside a handler
IdleLoop == [tasks |-> {}, running |-> NoTask]

\* a whole handler ran between two idle moments of the loop
Idle == UNCHANGED <<results, event_loop>>

Init ==
    /\ sessions = <<>>
    /\ calls = <<>>
    /\ conversation = <<>>
    /\ exception_phone_numbers = StoredExceptions
    /\ response = Script(PyNone, NoUrl, NoUrl, NoDial, FALSE)
    /\ finalize_writes = <<>>
    /\ invocations = <<>>
    /\ results = <<>>
    /\ event_loop = IdleLoop

\* POST /twilio/voice
twilio_voice(caller_id) ==
    LET call_id == new_call_id(calls)
        calls1 == log_new_call(calls, caller_id)
        exception_contact == is_exception_phone_number(exception_phone_numbers, caller_id)
        session_id == uuid4(sessions)
    IN  /\ Len(calls) < MaxCalls
        /\ IF exception_contact
           THEN /\ calls' = log_final_decision(calls1, call_id, <<"transferred_exception">>,
                                <<"Exception contact, direct transfer.">>,
                                <<"exception_transfer">>)
                /\ finalize_writes' = Append(finalize_writes, "one")
                /\ response' = DirectTransferScript
                /\ UNCHANGED <<sessions, invocations>>
           ELSE /\ calls' = calls1
                /\ finalize_writes' = Append(finalize_writes, "zero")
                /\ sessions' = (session_id :> NewSession(call_id)) @@ sessions
                /\ invocations' = (session_id :> 0) @@ invocations
                /\ response' = GreetingScript(session_id)
        /\ UNCHANGED <<conversation, exception_phone_numbers>>

\* main.py:225
NoSpeechFinalDecision == <<"ended_no_speech">>

\* a variant that re-prompts twice
GivesUpFromSecond(retry) == retry > 1
\* main.py:205, 217: `if retry == 0: ... else:`
GivesUp(retry) == retry # 0

\* POST /twilio/ai-response
twilio_ai_response(session_id, retry_param, user_speech, caller_id) ==
    LET missing == Missing(session_id)
        sid == IF missing THEN uuid4(sessions) ELSE session_id
        calls1 == IF missing THEN log_new_call(calls, caller_id) ELSE calls
        writes1 == IF missing THEN Append(finalize_writes, "zero") ELSE finalize_writes
        sessions1 == IF missing
                     THEN (sid :> NewSession(new_call_id(calls))) @@ sessions
                     ELSE sessions
        invocations1 == IF missing THEN (sid :> 0) @@ invocations ELSE invocations
        call_id == sessions1[sid].call_id
    IN  /\ IF IntRaises(retry_param)
           THEN \* int() raises ValueError: the handler's except clause
                /\ response' = ErrorScript
                /\ UNCHANGED <<sessions, calls, finalize_writes, invocations>>
           ELSE /\ missing => Len(calls) < MaxCalls
                /\ IF Strip(user_speech) # <<>>
                   THEN /\ response' = HoldScript(sid)
                        /\ sessions' = [sessions1 EXCEPT ![sid].pending_speech = user_speech]
                        /\ calls' = calls1
                        /\ finalize_writes' = writes1
                   ELSE IF ~GivesUp(IntOf(retry_param))
                   THEN /\ response' = RepromptScript(sid)
                        /\ sessions' = sessions1
                        /\ calls' = calls1
                        /\ finalize_writes' = writes1
                   ELSE /\ response' = NoSpeechByeScript
                        /\ sessions' = sessions1
                        /\ IF Truthy(call_id)
                           THEN /\ calls' = log_final_decision(calls1, call_id,
                                                NoSpeechFinalDecision, Null, Null)
                                /\ finalize_writes' = [writes1 EXCEPT ![call_id] = OneMore(@)]
                           ELSE /\ calls' = calls1
                                /\ finalize_writes' = writes1
                /\ invocations' = invocations1
        /\ UNCHANGED <<conversation, exception_phone_numbers>>

\* main.py:325: user_speech[:100]
SummaryLen == 100

\* main.py:325 and 342: the placeholder summaries
TransferSummary(user_speech) ==
    <<"Call transferred. User said: ">> \o Slice(user_speech, SummaryLen) \o <<"...">>
EndSummary(user_speech) ==
    <<"Call ended. User said: ">> \o Slice(user_speech, SummaryLen) \o <<"...">>

\* a variant that logs the spoken text
LoggedBotTextClean(ai_reply) == CleanReply(ai_reply)
\* main.py:323, 340, 360: the text of the "bot" conversation row
LoggedBotText(ai_reply) == ai_reply

\* main.py:322-323: both rows of one processed turn
LogTurn(conv, call_id, turn_index, user_speech, ai_reply) ==
    log_conversation_turn(
        log_conversation_turn(conv, call_id, turn_index - 1, "user", user_speech),
        call_id, turn_index - 1, "bot", LoggedBotText(ai_reply))

\* a variant that takes an absent pending speech for speech
NoSpeechUnlessAbsent(user_speech) ==
    user_speech # PyNone /\ (user_speech = <<>> \/ Strip(user_speech) = <<>>)
\* main.py:289: not user_speech or not user_speech.strip()
NoSpeech(user_speech) ==
    user_speech = PyNone \/ user_speech = <<>> \/ Strip(user_speech) = <<>>

\* a variant that reads the pending speech and leaves it in the session
peek_pending_speech(session) == session
\* main.py:270: session.pop("pending_speech", None), the session afterwards
pop_pending_speech(session) == [session EXCEPT !.pending_speech = PyNone]

\* POST /twilio/process-ai
twilio_process_ai(session_id, model) ==
    LET session == sessions[session_id]
        user_speech == session.pending_speech
        popped == pop_pending_speech(session)
        turn_index == session.turn_index
        call_id == session.call_id
        asked == [popped EXCEPT !.bot = add_user_message(@, user_speech),
                                !.turn_index = @ + 1]
        ai_reply == model.text
        answered == [asked EXCEPT !.bot = get_response(@, ai_reply)]
        decision == Decision(ai_reply)
    IN  /\ UNCHANGED exception_phone_numbers
        /\ IF Missing(session_id)
           THEN \* main.py:274-280
                /\ response' = ErrorScript
                /\ UNCHANGED <<sessions, calls, conversation, finalize_writes, invocations>>
           ELSE IF NoSpeech(user_speech)
           THEN \* main.py:289-299
                /\ sessions' = [sessions EXCEPT ![session_id] = popped]
                /\ response' = RepromptScript(session_id)
                /\ UNCHANGED <<calls, conversation, finalize_writes, invocations>>
           ELSE /\ TurnBudget
                /\ invocations' = [invocations EXCEPT ![session_id] = @ + 1]
                /\ IF model.kind = "raise"
                   THEN \* client.chat.completions.create raises: the except clause
                        /\ sessions' = [sessions EXCEPT ![session_id] = asked]
                        /\ response' = ErrorScript
                        /\ UNCHANGED <<calls, conversation, finalize_writes>>
                   ELSE IF model.kind = "none"
                   THEN \* message.content is None: reply.lower() raises after
                        \* add_bot_message(None); the except clause
                        /\ sessions' = [sessions EXCEPT ![session_id] =
                                           [asked EXCEPT !.bot = add_bot_message(@, PyNone)]]
                        /\ response' = ErrorScript
                        /\ UNCHANGED <<calls, conversation, finalize_writes>>
                   ELSE /\ sessions' = [sessions EXCEPT ![session_id] = answered]
                        /\ conversation' =
                               IF Truthy(call_id)
                               THEN LogTurn(conversation, call_id, turn_index, user_speech, ai_reply)
                               ELSE conversation
                        /\ IF decision = "transfer"
                           THEN /\ response' = TransferScript(session_id, CleanReply(ai_reply))
                                /\ IF Truthy(call_id)
                                   THEN /\ calls' = log_final_decision(calls, call_id,
                                                        <<"transferred">>,
                                                        TransferSummary(user_speech),
                                                        <<"transferred">>)
                                        /\ finalize_writes' =
                                               [finalize_writes EXCEPT ![call_id] = OneMore(@)]
                                   ELSE UNCHANGED <<calls, finalize_writes>>
                           ELSE IF decision = "end"
                           THEN /\ response' = EndScript(CleanReply(ai_reply))
                                /\ IF Truthy(call_id)
                                   THEN /\ calls' = log_final_decision(calls, call_id,
                                                        <<"completed">>,
                                                        EndSummary(user_speech),
                                                        <<"ended">>)
                                        /\ finalize_writes' =
                                               [finalize_writes EXCEPT ![call_id] = OneMore(@)]
                                   ELSE UNCHANGED <<calls, finalize_writes>>
                           ELSE /\ response' = ContinueScript(session_id, ai_reply)
                                /\ UNCHANGED <<calls, finalize_writes>>

\* a variant that keeps the outcome of the transfer
TransferOutcomeDecisionKeep(dial_call_status) == <<"transferred">>
\* main.py:389: f"transfer_failed_{dial_call_status}"
TransferOutcomeDecision(dial_call_status) == <<"transfer_failed_", dial_call_status>>

\* main.py:392-406
TransferOutcomeScript(dial_call_status) ==
    IF dial_call_status = "completed" THEN HangupScript ELSE TransferFailedScript

\* a variant that drops the session once the transfer outcome is logged
twilio_transfer_fallback_dropping(session_id, dial_call_status) ==
    LET call_id == IF Missing(session_id) THEN 0 ELSE sessions[session_id].call_id
    IN  /\ IF Truthy(call_id)
           THEN /\ calls' = log_final_decision(calls, call_id,
                                TransferOutcomeDecision(dial_call_status), Null, Null)
                /\ finalize_writes' = [finalize_writes EXCEPT ![call_id] = OneMore(@)]
           ELSE UNCHANGED <<calls, finalize_writes>>
        /\ response' = TransferOutcomeScript(dial_call_status)
        /\ sessions' = [t \in DOMAIN sessions \ {session_id} |-> sessions[t]]
        /\ UNCHANGED <<conversation, exception_phone_numbers, invocations>>

\* a variant that takes the latest call when the token names no session
twilio_transfer_fallback_latest_call(session_id, dial_call_status) ==
    LET call_id == IF Missing(session_id) THEN Len(calls) ELSE sessions[session_id].call_id
    IN  /\ IF Truthy(call_id)
           THEN /\ calls' = log_final_decision(calls, call_id,
                                TransferOutcomeDecision(dial_call_status), Null, Null)
                /\ finalize_writes' = [finalize_writes EXCEPT ![call_id] = OneMore(@)]
           ELSE UNCHANGED <<calls, finalize_writes>>
        /\ response' = TransferOutcomeScript(dial_call_status)
        /\ UNCHANGED <<sessions, conversation, exception_phone_numbers, invocations>>

\* POST /twilio/transfer-fallback
twilio_transfer_fallback(session_id, dial_call_status) ==
    LET call_id == IF Missing(session_id) THEN 0 ELSE sessions[session_id].call_id
    IN  /\ IF Truthy(call_id)
           THEN /\ calls' = log_final_decision(calls, call_id,
                                TransferOutcomeDecision(dial_call_status), Null, Null)
                /\ finalize_writes' = [finalize_writes EXCEPT ![call_id] = OneMore(@)]
           ELSE UNCHANGED <<calls, finalize_writes>>
        /\ response' = TransferOutcomeScript(dial_call_status)
        /\ UNCHANGED <<sessions, conversation, exception_phone_numbers, invocations>>

Next ==
    \/ \E caller_id \in Callers : twilio_voice(caller_id) /\ Idle
    \/ \E session_id \in SessionParams, retry \in RetryParams,
          user_speech \in SpeechResults, caller_id \in CallbackCallers :
            twilio_ai_response(session_id, retry, user_speech, caller_id) /\ Idle
    \/ \E session_id \in SessionParams, model \in ModelOutcomes :
            twilio_process_ai(session_id, model) /\ Idle
    \/ \E session_id \in SessionParams, dial_call_status \in DialCallStatuses :
            twilio_transfer_fallback(session_id, dial_call_status) /\ Idle

Spec == Init /\ [][Next]_vars

---------------------------------------------------------------------------
\* The processing step alone, over every reply built from a few pieces

\* pieces of replies: words, blanks, the markers and halves of the markers
Pieces ==
    { <<"O","k">>, <<" ">>, TRANSFER, END_CALL,
      <<"{","T","R","A","N","S">>, <<"F","E","R","}">>,
      <<"{","E","N","D">>, <<" ","C","A","L","L","}">> }

RECURSIVE Concats(_)
Concats(n) ==
    IF n = 0 THEN {<<>>}
    ELSE LET shorter == Concats(n - 1)
         IN  shorter \cup {p \o q : p \in shorter, q \in Pieces}

BoundedReplies == Concats(MaxPieces)

ReplyOutcomes == {Replied(r) : r \in BoundedReplies} \cup {Raised, NoContent}

TokenOne == uuid4(<<>>)
Utterance == <<"h","i">>

\* the state after twilio_voice(ExE164) and a speech callback carrying Utterance
InitReply ==
    /\ sessions = (TokenOne :> [NewSession(1) EXCEPT !.pending_speech = Utterance])
    /\ calls = log_new_call(<<>>, ExE164)
    /\ conversation = <<>>
    /\ exception_phone_numbers = StoredExceptions
    /\ response = HoldScript(TokenOne)
    /\ finalize_writes = <<"zero">>
    /\ invocations = (TokenOne :> 0)
    /\ results = <<>>
    /\ event_loop = IdleLoop

NextReply == \E model \in ReplyOutcomes : twilio_process_ai(TokenOne, model) /\ Idle

SpecReply == InitReply /\ [][NextReply]_vars

---------------------------------------------------------------------------
\* Properties of the call-session state machine

\* a script that ends the call: no <Gather>, no <Redirect>, no <Dial>
TerminalScript(script) ==
    script.gather = NoUrl /\ script.redirect = NoUrl /\ script.dial = NoDial

\* this step wrote a finalize to some call row
WroteFinalize ==
    \E c \in 1..Len(calls') :
        IF c > Len(calls) THEN finalize_writes'[c] # "zero"
        ELSE finalize_writes'[c] # finalize_writes[c] \/ calls'[c] # calls[c]

\* this step wrote no finalize and touched no existing call row
NoFinalize ==
    /\ \A c \in 1..Len(calls) : calls'[c] = calls[c] /\ finalize_writes'[c] = finalize_writes[c]
    /\ \A c \in (Len(calls) + 1)..Len(calls') : finalize_writes'[c] = "zero"

\* the number is stored, in canonical form, in an active row of the exception list
HasActiveEntry(caller_id) ==
    \E i \in 1..Len(exception_phone_numbers) :
        /\ exception_phone_numbers[i].is_active
        /\ exception_phone_numbers[i].phone_number = normalize_phone_number(caller_id)

\* no session belongs to a call that was transferred by the allow-list bypass
BypassedCallsHaveNoSession ==
    \A c \in 1..Len(calls) :
        calls[c].final_decision = <<"transferred_exception">> =>
            /\ \A t \in DOMAIN sessions : sessions[t].call_id # c
            /\ \A k \in 1..Len(conversation) : conversation[k].call_id # c

\* C1: an inbound call from a number with an active allow-list entry adds no
\* session, invokes the model zero times, is finalized transferred_exception and
\* gets the direct dial script; no session ever belongs to such a call.
C1_AllowListShortCircuit ==
    [][ /\ \A caller_id \in Callers :
              (twilio_voice(caller_id) /\ HasActiveEntry(caller_id)) =>
                  /\ sessions' = sessions
                  /\ invocations' = invocations
                  /\ conversation' = conversation
                  /\ Len(calls') = Len(calls) + 1
                  /\ calls'[Len(calls')].caller_id = caller_id
                  /\ calls'[Len(calls')].final_decision = <<"transferred_exception">>
                  /\ calls'[Len(calls')].end_time # Null
                  /\ response' = DirectTransferScript
                  /\ response'.dial.number = REAL_PHONE_NUMBER
        /\ BypassedCallsHaveNoSession' ]_vars

C1_Witness ==
    \E c \in 1..Len(calls) :
        /\ calls[c].caller_id = MomPretty
        /\ normalize_phone_number(MomPretty) = MomE164
        /\ HasActiveEntry(MomPretty)
        /\ calls[c].final_decision = <<"transferred_exception">>
        /\ response = DirectTransferScript
        /\ \A t \in DOMAIN sessions : sessions[t].call_id # c

\* C2 as stated: a call row has no finalize write while its outcome is null and
\* exactly one once it is set.
C2_ExactlyOneFinalize ==
    \A c \in 1..Len(calls) :
        finalize_writes[c] = (IF calls[c].final_decision = Null THEN "zero" ELSE "one")

\* C2 amended: a call row has no finalize write while its outcome is null and at
\* least one once it is set.
C2_FinalizedIffWritten ==
    \A c \in 1..Len(calls) :
        (calls[c].final_decision = Null) <=> (finalize_writes[c] = "zero")

C2_Witness ==
    \E t \in DOMAIN sessions :
        /\ finalize_writes[sessions[t].call_id] = "many"
        /\ calls[sessions[t].call_id].final_decision = <<"transfer_failed_", "no-answer">>

\* C3: every step whose script ends the call wrote a finalize with a non-null
\* outcome.
C3_TerminalScriptFinalized ==
    [][ TerminalScript(response') =>
            /\ WroteFinalize
            /\ \A c \in 1..Len(calls') :
                   finalize_writes'[c] # "zero" => calls'[c].final_decision # Null ]_vars

\* this step invoked the model for no session
NoInvocation ==
    \A t \in DOMAIN invocations' :
        invocations'[t] = IF t \in DOMAIN invocations THEN invocations[t] ELSE 0

\* the speech results for which `user_speech.strip()` is falsy
BlankSpeech == {u \in SpeechResults : Strip(u) = <<>>}

\* C4: a speech callback without speech re-prompts with retry=1 when retry=0,
\* and when retry=1 finalizes ended_no_speech with a goodbye script that collects
\* no speech; neither invokes the model.
C4_NoSpeechPath ==
    [][ \A session_id \in SessionParams, caller_id \in CallbackCallers,
           user_speech \in BlankSpeech :
          /\ twilio_ai_response(session_id, <<"0">>, user_speech, caller_id) =>
                /\ response'.gather.path = "/twilio/ai-response"
                /\ response'.gather.retry = 1
                /\ response'.gather.session_id \in DOMAIN sessions'
                /\ ~Missing(session_id) => response'.gather.session_id = session_id
                /\ response'.redirect = response'.gather
                /\ NoFinalize
                /\ NoInvocation
          /\ twilio_ai_response(session_id, <<"1">>, user_speech, caller_id) =>
                /\ response' = NoSpeechByeScript
                /\ TerminalScript(response')
                /\ \E t \in DOMAIN sessions' :
                      /\ ~Missing(session_id) => t = session_id
                      /\ calls'[sessions'[t].call_id].final_decision = <<"ended_no_speech">>
                /\ NoInvocation ]_vars

C4_Witness ==
    \E t \in DOMAIN sessions :
        /\ calls[sessions[t].call_id].final_decision = <<"ended_no_speech">>
        /\ response = NoSpeechByeScript
        /\ invocations[t] = 0
        /\ sessions[t].bot.history = <<>>

\* the session's call row after the step
CallRowAfter(session_id) == calls'[sessions[session_id].call_id]

\* the step processes the buffered utterance of the session
Processes(session_id, model) ==
    /\ ~Missing(session_id)
    /\ sessions[session_id].pending_speech # PyNone
    /\ twilio_process_ai(session_id, model)

\* C5: the processing step routes a reply by its markers: {TRANSFER} present ->
\* dial and outcome transferred; else {END CALL} present -> spoken text only and
\* outcome completed; else a new speech collection and no finalize.  Both
\* markers present -> transfer.
C5_DecisionByMarker ==
    [][ \A r \in BoundedReplies :
          Processes(TokenOne, Replied(r)) =>
            IF Contains(r, TRANSFER)
            THEN /\ response'.dial.number = REAL_PHONE_NUMBER
                 /\ response'.dial.action.session_id = TokenOne
                 /\ response'.gather = NoUrl
                 /\ CallRowAfter(TokenOne).final_decision = <<"transferred">>
            ELSE IF Contains(r, END_CALL)
            THEN /\ TerminalScript(response')
                 /\ CallRowAfter(TokenOne).final_decision = <<"completed">>
            ELSE /\ response'.gather = Url("/twilio/ai-response", TokenOne, 0)
                 /\ response'.dial = NoDial
                 /\ NoFinalize ]_vars

\* a reply with both markers was routed as a transfer
C5_Witness ==
    /\ response.dial.number = REAL_PHONE_NUMBER
    /\ calls[1].final_decision = <<"transferred">>
    /\ LET history == sessions[TokenOne].bot.history
       IN  /\ Len(history) = 2
           /\ Contains(history[2].content, TRANSFER)
           /\ Contains(history[2].content, END_CALL)

\* C6: the text in <Say> holds neither marker.
C6_NoMarkerSpoken ==
    response.say # PyNone =>
        ~Contains(response.say, TRANSFER) /\ ~Contains(response.say, END_CALL)

\* the two rows a processing step appends, with `text` as the system row's text
TurnRowsAdded(session_id, text) ==
    LET n == Len(conversation)
        call_id == sessions[session_id].call_id
    IN  /\ Len(conversation') = n + 2
        /\ SubSeq(conversation', 1, n) = conversation
        /\ conversation'[n + 1].call_id = call_id
        /\ conversation'[n + 1].speaker = "user"
        /\ conversation'[n + 1].text = sessions[session_id].pending_speech
        /\ conversation'[n + 2].call_id = call_id
        /\ conversation'[n + 2].speaker = "bot"
        /\ conversation'[n + 2].text = text

\* C7 as stated: a successful processing step appends exactly two rows, the
\* caller's utterance and the spoken text (marker stripped).
C7_TurnsLoggedStripped ==
    [][ \A session_id \in DOMAIN sessions, r \in ModelReplies :
          Processes(session_id, Replied(r)) =>
              TurnRowsAdded(session_id, response'.say) ]_vars

\* C7 amended: a successful processing step appends exactly two rows, the
\* caller's utterance and the model's reply as received (marker included).
C7_TurnsLoggedRaw ==
    [][ \A session_id \in DOMAIN sessions, r \in ModelReplies :
          Processes(session_id, Replied(r)) => TurnRowsAdded(session_id, r) ]_vars

C7_Witness ==
    /\ Len(conversation) = 2
    /\ conversation[1].speaker = "user" /\ conversation[1].text = Utterance
    /\ conversation[2].speaker = "bot" /\ conversation[2].text = ReplyTransfer
    /\ response.say = CleanReply(ReplyTransfer)
    /\ response.say # ReplyTransfer

\* C8: a transfer-outcome callback reporting completed leaves a transferred
\* call transferred and emits the silent hangup.
C8_CompletedKeepsTransferred ==
    [][ \A session_id \in DOMAIN sessions :
          ( /\ twilio_transfer_fallback(session_id, "completed")
            /\ calls[sessions[session_id].call_id].final_decision = <<"transferred">> ) =>
              /\ CallRowAfter(session_id).final_decision = <<"transferred">>
              /\ response' = HangupScript ]_vars

\* C9: a transfer-outcome callback reporting a status other than completed
\* overwrites the outcome of the transferred call with transfer_failed_<status>
\* and emits the fallback script asking the caller to text.
C9_TransferFailedOverwrites ==
    [][ \A session_id \in DOMAIN sessions, status \in DialCallStatuses \ {"completed"} :
          ( /\ twilio_transfer_fallback(session_id, status)
            /\ calls[sessions[session_id].call_id].final_decision = <<"transferred">> ) =>
              /\ CallRowAfter(session_id).final_decision = <<"transfer_failed_", status>>
              /\ CallRowAfter(session_id).end_time # Null
              /\ response' = TransferFailedScript
              /\ response'.say = SayOnAnotherCall
              /\ response'.hangup ]_vars

C9_Witness ==
    \E t \in DOMAIN sessions :
        /\ calls[sessions[t].call_id].final_decision = <<"transfer_failed_", "no-answer">>
        /\ response = TransferFailedScript
        /\ \E k \in 1..Len(sessions[t].bot.history) :
               Contains(sessions[t].bot.history[k].content, TRANSFER)

\* C10: when the model invocation fails, the processing step takes the end
\* decision (the call is finalized completed) and invokes the model once.
C10_ModelFailureEndsCall ==
    [][ \A session_id \in DOMAIN sessions :
          Processes(session_id, Raised) =>
              /\ CallRowAfter(session_id).final_decision = <<"completed">>
              /\ invocations'[session_id] = invocations[session_id] + 1 ]_vars

---------------------------------------------------------------------------
\* The handlers when a statement of the log store raises (connection lost,
\* database locked).  src/database.py catches nothing: the exception leaves
\* log_new_call / log_conversation_turn / log_final_decision and reaches the
\* handler that called it.  The statement that raises writes nothing.
\* SpecStore runs the call-start handler, the speech callback and the
\* processing step under such failures.

NoFailure == "none"
VoiceStoreOps      == {NoFailure, "log_new_call", "log_final_decision"}
AiResponseStoreOps == {NoFailure, "log_new_call", "log_final_decision"}
ProcessStoreOps    == {NoFailure, "log_conversation_turn_user",
                       "log_conversation_turn_bot", "log_final_decision"}

\* main.py:66-139 has no try/except: the exception leaves twilio_voice and the
\* framework answers 500 with no voice script
Unhandled == Script(PyNone, NoUrl, NoUrl, NoDial, FALSE)

\* POST /twilio/voice, the store statement `failing` raising
twilio_voice_store(caller_id, failing) ==
    LET calls1 == log_new_call(calls, caller_id)
        exception_contact == is_exception_phone_number(exception_phone_numbers, caller_id)
    IN  IF failing = NoFailure THEN twilio_voice(caller_id)
        ELSE /\ Len(calls) < MaxCalls
             /\ response' = Unhandled
             /\ IF failing = "log_new_call"
                THEN \* main.py:87
                     UNCHANGED <<calls, finalize_writes>>
                ELSE \* main.py:97, after the call row was inserted
                     /\ failing = "log_final_decision"
                     /\ exception_contact
                     /\ calls' = calls1
                     /\ finalize_writes' = Append(finalize_writes, "zero")
             /\ UNCHANGED <<sessions, invocations, conversation, exception_phone_numbers>>

\* POST /twilio/ai-response, the store statement `failing` raising
twilio_ai_response_store(session_id, retry_param, user_speech, caller_id, failing) ==
    LET missing == Missing(session_id)
        sid == IF missing THEN uuid4(sessions) ELSE session_id
        sessions1 == IF missing
                     THEN (sid :> NewSession(new_call_id(calls))) @@ sessions
                     ELSE sessions
    IN  IF failing = NoFailure
        THEN twilio_ai_response(session_id, retry_param, user_speech, caller_id)
        ELSE /\ response' = ErrorScript
             /\ ~IntRaises(retry_param)
             /\ IF failing = "log_new_call"
                THEN \* main.py:182, before sessions[session_id] is assigned
                     /\ missing
                     /\ UNCHANGED <<sessions, calls, finalize_writes, invocations>>
                ELSE \* main.py:225
                     /\ failing = "log_final_decision"
                     /\ Strip(user_speech) = <<>>
                     /\ GivesUp(IntOf(retry_param))
                     /\ missing => Len(calls) < MaxCalls
                     /\ Truthy(sessions1[sid].call_id)
                     /\ sessions' = sessions1
                     /\ calls' = IF missing THEN log_new_call(calls, caller_id) ELSE calls
                     /\ finalize_writes' =
                            IF missing THEN Append(finalize_writes, "zero") ELSE finalize_writes
                     /\ invocations' = IF missing THEN (sid :> 0) @@ invocations ELSE invocations
             /\ UNCHANGED <<conversation, exception_phone_numbers>>

\* POST /twilio/process-ai, the store statement `failing` raising
twilio_process_ai_store(session_id, model, failing) ==
    LET session == sessions[session_id]
        user_speech == session.pending_speech
        popped == pop_pending_speech(session)
        asked == [popped EXCEPT !.bot = add_user_message(@, user_speech),
                                !.turn_index = @ + 1]
        ai_reply == model.text
        answered == [asked EXCEPT !.bot = get_response(@, ai_reply)]
        user_row == log_conversation_turn(conversation, session.call_id,
                                          session.turn_index - 1, "user", user_speech)
    IN  IF failing = NoFailure THEN twilio_process_ai(session_id, model)
        ELSE /\ response' = ErrorScript
             /\ ~Missing(session_id)
             /\ ~(user_speech = PyNone \/ user_speech = <<>> \/ Strip(user_speech) = <<>>)
             /\ model.kind = "reply"
             /\ Truthy(session.call_id)
             /\ TurnBudget
             /\ sessions' = [sessions EXCEPT ![session_id] = answered]
             /\ invocations' = [invocations EXCEPT ![session_id] = @ + 1]
             /\ IF failing = "log_conversation_turn_user"
                THEN \* main.py:322, 339, 359
                     conversation' = conversation
                ELSE IF failing = "log_conversation_turn_bot"
                THEN \* main.py:323, 340, 360
                     conversation' = user_row
                ELSE \* main.py:326, 343
                     /\ failing = "log_final_decision"
                     /\ Decision(ai_reply) \in {"transfer", "end"}
                     /\ conversation' = LogTurn(conversation, session.call_id,
                                                session.turn_index, user_speech, ai_reply)
             /\ UNCHANGED <<calls, finalize_writes, exception_phone_numbers>>

\* the inputs under which the failures are explored: one absent and the issued
\* session tokens, no speech or an utterance, transfer or continue or no reply
StoreSessionParams == {NoSession} \cup DOMAIN sessions
StoreSpeechResults == {<<>>, Utterance}
StoreModelOutcomes == {Replied(ReplyTransfer), Replied(ReplyContinue), Raised, NoContent}

NextStore ==
    \/ \E caller_id \in Callers, failing \in VoiceStoreOps :
            twilio_voice_store(caller_id, failing) /\ Idle
    \/ \E session_id \in StoreSessionParams, retry \in RetryParams,
          user_speech \in StoreSpeechResults, caller_id \in CallbackCallers,
          failing \in AiResponseStoreOps :
            twilio_ai_response_store(session_id, retry, user_speech, caller_id, failing) /\ Idle
    \/ \E session_id \in StoreSessionParams, model \in StoreModelOutcomes,
          failing \in ProcessStoreOps :
            twilio_process_ai_store(session_id, model, failing) /\ Idle

SpecStore == Init /\ [][NextStore]_vars

\* the script the call-start handler emits when the store works
VoiceScript(caller_id) ==
    IF is_exception_phone_number(exception_phone_numbers, caller_id)
    THEN DirectTransferScript
    ELSE GreetingScript(uuid4(sessions))

\* the step processes the buffered utterance while the store statement raises
ProcessesStore(session_id, model, failing) ==
    /\ ~Missing(session_id)
    /\ sessions[session_id].pending_speech # PyNone
    /\ twilio_process_ai_store(session_id, model, failing)

\* C11: a failure of a log-store operation does not change the voice script:
\* the call-start handler still emits its greeting or direct-dial script, and a
\* processing step whose reply decides transfer still emits the dial script.
C11_StoreFailureKeepsScript ==
    [][ /\ \A caller_id \in Callers, failing \in VoiceStoreOps \ {NoFailure} :
              twilio_voice_store(caller_id, failing) => response' = VoiceScript(caller_id)
        /\ \A session_id \in DOMAIN sessions, failing \in ProcessStoreOps \ {NoFailure} :
              ProcessesStore(session_id, Replied(ReplyTransfer), failing) =>
                  response' = TransferScript(session_id, CleanReply(ReplyTransfer)) ]_vars

\* a spoken apology that collects no further speech
Apology(script) == script.say = SayError /\ TerminalScript(script)

\* C12: whatever raises inside the speech-callback handler or the processing
\* step (int() of the retry parameter, the model invocation, a reply without
\* content, a statement of the log store), the handler returns the apology
\* script, which collects no further speech: a step either returns the apology
\* or is not a step of these two handlers in which something raised.
C12_ExceptionsCaught ==
    [][ \/ Apology(response')
        \/ /\ \A session_id \in StoreSessionParams, retry \in RetryParams,
                  user_speech \in StoreSpeechResults, caller_id \in CallbackCallers,
                  failing \in AiResponseStoreOps :
                     ~ /\ failing # NoFailure \/ IntRaises(retry)
                       /\ twilio_ai_response_store(session_id, retry, user_speech,
                                                   caller_id, failing)
           /\ \A session_id \in DOMAIN sessions, model \in StoreModelOutcomes,
                  failing \in ProcessStoreOps :
                     ~ /\ failing # NoFailure \/ model.kind # "reply"
                       /\ ProcessesStore(session_id, model, failing) ]_vars

\* the bot row of a turn could not be logged, and the caller heard the apology
C12_Witness ==
    /\ response = ErrorScript
    /\ Len(conversation) = 1
    /\ \E t \in DOMAIN sessions : invocations[t] = 1 /\ Len(sessions[t].bot.history) = 2

---------------------------------------------------------------------------
\* normalize_phone_number on bounded inputs

MomEleven == <<"1">> \o MomPlain
\* the four spellings of one US number
MomSpellings == {MomPlain, MomE164, MomEleven, MomPretty}

\* a plus sign, a country code, nine digits, one digit, a separator
PhonePieces ==
    { <<"+">>, <<"1">>, <<"5","5","5","1","2","3","4","5","6">>, <<"7">>, <<"-">> }

RECURSIVE PhoneConcats(_)
PhoneConcats(n) ==
    IF n = 0 THEN {<<>>}
    ELSE LET shorter == PhoneConcats(n - 1)
         IN  shorter \cup {p \o q : p \in shorter, q \in PhonePieces}

\* the strings normalized: 0 to 28 characters, with 0 to 27 digits
PhoneStrings == PhoneConcats(MaxPhonePieces) \cup MomSpellings

\* what an operation was applied to and what it returned
Result(op, arg, value) == [op |-> op, arg |-> arg, value |-> value]

\* one call of normalize_phone_number
Normalize(phone_number) ==
    /\ results = <<>>
    /\ results' = <<Result("normalize", phone_number, normalize_phone_number(phone_number))>>
    /\ UNCHANGED <<sessions, calls, conversation, exception_phone_numbers, response,
                   finalize_writes, invocations, event_loop>>

NextNormalize == \E phone_number \in PhoneStrings : Normalize(phone_number)

SpecNormalize == Init /\ [][NextNormalize]_vars

\* C13: normalizing a normalized number changes nothing, and the spellings
\* 5551234567, +15551234567, 15551234567 and (555) 123-4567 all normalize to
\* +15551234567.
C13_NormalizeIdempotent ==
    \A i \in 1..Len(results) :
        results[i].op = "normalize" =>
            /\ normalize_phone_number(results[i].value) = results[i].value
            /\ results[i].arg \in MomSpellings => results[i].value = MomE164

C13_Witness ==
    /\ \E i \in 1..Len(results) :
           /\ results[i].op = "normalize"
           /\ results[i].arg = MomPretty
           /\ results[i].value = MomE164
    /\ MomPlain \in PhoneConcats(MaxPhonePieces)

---------------------------------------------------------------------------
\* The exception list under its administration operations

\* the numbers given to the operations: two spellings of one number, and another
RawNumbers == {MomPlain, MomE164, ExE164}

\* the contact entered with a number
ContactName(phone_number) ==
    IF phone_number = MomPlain THEN <<"Mom">>
    ELSE IF phone_number = MomE164 THEN <<"Mother">>
    ELSE <<"Ex">>
Category(phone_number) == IF phone_number = ExE164 THEN <<"friends">> ELSE <<"family">>

\* the tables of the call log and the sessions are not touched
AdminFrame ==
    UNCHANGED <<sessions, calls, conversation, response, finalize_writes,
                invocations, event_loop>>

InitAdmin ==
    /\ sessions = <<>>
    /\ calls = <<>>
    /\ conversation = <<>>
    /\ exception_phone_numbers = <<>>
    /\ response = Script(PyNone, NoUrl, NoUrl, NoDial, FALSE)
    /\ finalize_writes = <<>>
    /\ invocations = <<>>
    /\ results = <<>>
    /\ event_loop = IdleLoop

AddException(phone_number) ==
    /\ Len(results) < MaxOps
    /\ exception_phone_numbers' =
           add_exception_phone_number(exception_phone_numbers, phone_number,
                                      ContactName(phone_number), Category(phone_number))
    /\ results' = Append(results, Result("add", phone_number,
                                         ~add_refused(exception_phone_numbers, phone_number)))
    /\ AdminFrame

RemoveException(phone_number) ==
    /\ Len(results) < MaxOps
    /\ exception_phone_numbers' =
           remove_exception_phone_number(exception_phone_numbers, phone_number)
    /\ results' = Append(results, Result("remove", phone_number,
                                         rows_affected(exception_phone_numbers, phone_number) > 0))
    /\ AdminFrame

\* restore from the command line tool or from the dashboard
RestoreException(phone_number, tool) ==
    /\ Len(results) < MaxOps
    /\ exception_phone_numbers' =
           IF tool = "cli"
           THEN restore_exception_direct(exception_phone_numbers, phone_number)
           ELSE restore_exception(exception_phone_numbers, phone_number)
    /\ results' = Append(results, Result("restore", phone_number, PyNone))
    /\ AdminFrame

Lookup(phone_number) ==
    /\ Len(results) < MaxOps
    /\ results' = Append(results, Result("lookup", phone_number,
                                         exception_contact_of(exception_phone_numbers, phone_number)))
    /\ UNCHANGED exception_phone_numbers
    /\ AdminFrame

NextAdmin ==
    \/ \E phone_number \in RawNumbers : AddException(phone_number)
    \/ \E phone_number \in RawNumbers : RemoveException(phone_number)
    \/ \E phone_number \in RawNumbers, tool \in {"cli", "dashboard"} :
            RestoreException(phone_number, tool)
    \/ \E phone_number \in RawNumbers : Lookup(phone_number)

SpecAdmin == InitAdmin /\ [][NextAdmin]_vars

\* the i-th operation applied was op(phone_number)
Applied(i, op, phone_number) ==
    /\ i \in 1..Len(results)
    /\ results[i].op = op
    /\ results[i].arg = phone_number

\* what the operation of this step returned
Returned == results'[Len(results')].value

\* no two rows hold the same number
OneEntryPerNumber(table) ==
    \A i, j \in 1..Len(table) :
        normalize_phone_number(table[i].phone_number)
            = normalize_phone_number(table[j].phone_number) => i = j

\* C14: add returns False and inserts nothing when a row with the canonical
\* number exists, active or soft-deleted; the table never holds two rows for one
\* canonical number.
C14_AddRefusesExisting ==
    [][ /\ \A phone_number \in RawNumbers :
              /\ AddException(phone_number)
              /\ \E i \in 1..Len(exception_phone_numbers) :
                     exception_phone_numbers[i].phone_number
                         = normalize_phone_number(phone_number)
              => /\ Returned = FALSE
                 /\ exception_phone_numbers' = exception_phone_numbers
        /\ OneEntryPerNumber(exception_phone_numbers') ]_vars

\* a number was added, removed, and its second add under another spelling refused
C14_Witness ==
    \E i, j, k \in 1..Len(results) :
        /\ i < j /\ j < k
        /\ Applied(i, "add", MomPlain) /\ results[i].value = TRUE
        /\ Applied(j, "remove", MomE164) /\ results[j].value = TRUE
        /\ Applied(k, "add", MomE164) /\ results[k].value = FALSE
        /\ Len(exception_phone_numbers) = 1

\* C15: remove returns True exactly when a matching active row existed (which
\* it deactivated), and False when no row matches or the row is inactive.
C15_RemoveTrueOnlyIfActive ==
    [][ \A phone_number \in RawNumbers :
          RemoveException(phone_number) =>
              /\ Returned = is_exception_phone_number(exception_phone_numbers, phone_number)
              /\ ~is_exception_phone_number(exception_phone_numbers', phone_number) ]_vars

\* C16: a lookup right after add(r), remove(r) returns none; a lookup right
\* after add(r), remove(r), restore(r) returns the entry that was added: same
\* canonical number, name, category and added date.
C16_RemoveThenRestore ==
    \A i \in 1..Len(results), phone_number \in RawNumbers :
        Applied(i, "add", phone_number) /\ results[i].value = TRUE
        /\ Applied(i + 1, "remove", phone_number) =>
            /\ Applied(i + 2, "lookup", phone_number) => results[i + 2].value = NoContact
            /\ Applied(i + 2, "restore", phone_number)
               /\ Applied(i + 3, "lookup", phone_number) =>
                   /\ results[i + 3].value.phone_number = normalize_phone_number(phone_number)
                   /\ results[i + 3].value.contact_name = ContactName(phone_number)
                   /\ results[i + 3].value.category = Category(phone_number)
                   /\ results[i + 3].value.added_date = UtcNow

\* C17: lookup returns an entry exactly when an active row holds the
\* normalized number, and then it is that row; it returns none for a
\* soft-deleted and for an absent number.
C17_LookupIffActive ==
    [][ \A phone_number \in RawNumbers :
          Lookup(phone_number) =>
              LET matching == {i \in 1..Len(exception_phone_numbers) :
                                  exception_phone_numbers[i].phone_number
                                      = normalize_phone_number(phone_number)}
                  active == {i \in matching : exception_phone_numbers[i].is_active}
              IN  /\ active = {} => Returned = NoContact
                  /\ active # {} =>
                        /\ Returned.id \in active
                        /\ Returned = ContactOf(exception_phone_numbers, Returned.id) ]_vars

\* a number was found under another spelling, and not found once soft-deleted
C17_Witness ==
    \E i, j, k, l \in 1..Len(results) :
        /\ i < j /\ j < k /\ k < l
        /\ Applied(i, "add", MomPlain) /\ results[i].value = TRUE
        /\ Applied(j, "lookup", MomE164) /\ results[j].value.contact_name = <<"Mom">>
        /\ Applied(k, "remove", MomPlain)
        /\ Applied(l, "lookup", MomPlain) /\ results[l].value = NoContact
---------------------------------------------------------------------------
\* A process-ai callback that finds no pending speech

\* C18: a process-ai callback for a session whose pending speech is already
\* consumed (absent) is treated as no speech: the session's history and turn
\* index stay as they were, the model is not invoked, nothing is written to
\* the log store, and the reply is the re-prompt that collects speech again
\* with retry=1.
C18_DuplicateCallbackIsNoSpeech ==
    [][ \A session_id \in DOMAIN sessions, model \in ModelOutcomes :
          ( /\ sessions[session_id].pending_speech = PyNone
            /\ twilio_process_ai(session_id, model) )
          => /\ sessions'[session_id].bot = sessions[session_id].bot
             /\ sessions'[session_id].turn_index = sessions[session_id].turn_index
             /\ sessions'[session_id].pending_speech = PyNone
             /\ invocations' = invocations
             /\ calls' = calls
             /\ conversation' = conversation
             /\ finalize_writes' = finalize_writes
             /\ response'.say = SayRepeat
             /\ response'.gather = Url("/twilio/ai-response", session_id, 1)
             /\ response'.dial = NoDial ]_vars

\* a session whose utterance a processing step has consumed (one model
\* invocation, none pending) and which has been answered with the re-prompt
C18_Witness ==
    \E session_id \in DOMAIN sessions :
        /\ invocations[session_id] = 1
        /\ sessions[session_id].pending_speech = PyNone
        /\ sessions[session_id].turn_index = 1
        /\ response.say = SayRepeat
        /\ response.gather = Url("/twilio/ai-response", session_id, 1)

---------------------------------------------------------------------------
\* The handlers as coroutines of one event loop.  Every handler is an
\* `async def` whose only await is `await request.form()`; past it the body
\* runs on the loop without a suspension point.  bot.get_response() calls the
\* synchronous client (bot.py:28, 110): the coroutine stays on the loop while
\* the model works.  event_loop.tasks are the handlers suspended in
\* request.form(); event_loop.running is the handler inside get_response().

TokenTwo == uuid4(TokenOne :> NewSession(1))

\* two calls in progress: twilio_voice(ExE164) ran twice
InitLoop ==
    /\ sessions = (TokenTwo :> NewSession(2)) @@ (TokenOne :> NewSession(1))
    /\ calls = log_new_call(log_new_call(<<>>, ExE164), ExE164)
    /\ conversation = <<>>
    /\ exception_phone_numbers = StoredExceptions
    /\ response = GreetingScript(TokenTwo)
    /\ finalize_writes = <<"zero", "zero">>
    /\ invocations = (TokenTwo :> 0) @@ (TokenOne :> 0)
    /\ results = <<>>
    /\ event_loop = IdleLoop

LoopPaths == {"/twilio/ai-response", "/twilio/process-ai"}
LoopSpeechResults == {<<>>, Utterance}
LoopModelOutcomes == {Replied(ReplyContinue), Raised}

\* the loop is between handlers
LoopFree == event_loop.running = NoTask

\* a request number no live handler has
FreeNumber ==
    CHOOSE n \in 1..(MaxTasks + 1) :
        \A task \in event_loop.tasks \cup {event_loop.running} : task.n # n

\* main.py:160, 256: a request is routed to its handler, which runs to
\* `await request.form()`
Accept(path, session_id, speech_result) ==
    /\ LoopFree
    /\ Cardinality(event_loop.tasks) < MaxTasks
    /\ path = "/twilio/process-ai" => speech_result = <<>>
    /\ event_loop' = [event_loop EXCEPT
                         !.tasks = @ \cup {Frame(FreeNumber, path, session_id,
                                                 speech_result, 0, 0)}]
    /\ UNCHANGED <<sessions, calls, conversation, exception_phone_numbers, response,
                   finalize_writes, invocations, results>>

\* main.py:160-235: the speech callback from request.form() to its return
RunAiResponse(task) ==
    /\ LoopFree
    /\ task \in event_loop.tasks
    /\ task.path = "/twilio/ai-response"
    /\ twilio_ai_response(task.session_id, <<"0">>, task.user_speech, ExE164)
    /\ event_loop' = [event_loop EXCEPT !.tasks = @ \ {task}]
    /\ UNCHANGED results

\* main.py:256-305: the processing step from request.form() to its return, or
\* into bot.get_response()
RunProcessAi(task) ==
    LET session_id == task.session_id
        session == sessions[session_id]
        user_speech == session.pending_speech
        popped == pop_pending_speech(session)
        asked == [popped EXCEPT !.bot = add_user_message(@, user_speech),
                                !.turn_index = @ + 1]
    IN  /\ LoopFree
        /\ task \in event_loop.tasks
        /\ task.path = "/twilio/process-ai"
        /\ IF Missing(session_id) \/ NoSpeech(user_speech)
           THEN \* main.py:274-299: returns without the model
                /\ twilio_process_ai(session_id, Raised)
                /\ event_loop' = [event_loop EXCEPT !.tasks = @ \ {task}]
           ELSE \* main.py:303-305
                /\ invocations[session_id] < MaxTurns
                /\ sessions' = [sessions EXCEPT ![session_id] = asked]
                /\ invocations' = [invocations EXCEPT ![session_id] = @ + 1]
                /\ event_loop' = [tasks |-> event_loop.tasks \ {task},
                                  running |-> Frame(task.n, task.path, session_id,
                                                    user_speech, session.turn_index,
                                                    session.call_id)]
                /\ UNCHANGED <<calls, conversation, exception_phone_numbers, response,
                               finalize_writes>>
        /\ UNCHANGED results

\* bot.py:110-130 and main.py:305-370: the client returns or raises, and the
\* processing step runs to its return
ModelReturns(model) ==
    LET frame == event_loop.running
        session_id == frame.session_id
        user_speech == frame.user_speech
        turn_index == frame.turn_index
        call_id == frame.call_id
        ai_reply == model.text
        decision == Decision(ai_reply)
    IN  /\ ~LoopFree
        /\ event_loop' = [event_loop EXCEPT !.running = NoTask]
        /\ UNCHANGED <<exception_phone_numbers, invocations, results>>
        /\ IF model.kind = "raise"
           THEN /\ response' = ErrorScript
                /\ UNCHANGED <<sessions, calls, conversation, finalize_writes>>
           ELSE IF model.kind = "none"
           THEN /\ sessions' = [sessions EXCEPT ![session_id].bot = add_bot_message(@, PyNone)]
                /\ response' = ErrorScript
                /\ UNCHANGED <<calls, conversation, finalize_writes>>
           ELSE /\ sessions' = [sessions EXCEPT ![session_id].bot = get_response(@, ai_reply)]
                /\ conversation' =
                       IF Truthy(call_id)
                       THEN LogTurn(conversation, call_id, turn_index, user_speech, ai_reply)
                       ELSE conversation
                /\ IF decision = "transfer"
                   THEN /\ response' = TransferScript(session_id, CleanReply(ai_reply))
                        /\ IF Truthy(call_id)
                           THEN /\ calls' = log_final_decision(calls, call_id,
                                                <<"transferred">>,
                                                TransferSummary(user_speech),
                                                <<"transferred">>)
                                /\ finalize_writes' =
                                       [finalize_writes EXCEPT ![call_id] = OneMore(@)]
                           ELSE UNCHANGED <<calls, finalize_writes>>
                   ELSE IF decision = "end"
                   THEN /\ response' = EndScript(CleanReply(ai_reply))
                        /\ IF Truthy(call_id)
                           THEN /\ calls' = log_final_decision(calls, call_id,
                                                <<"completed">>,
                                                EndSummary(user_speech),
                                                <<"ended">>)
                                /\ finalize_writes' =
                                       [finalize_writes EXCEPT ![call_id] = OneMore(@)]
                           ELSE UNCHANGED <<calls, finalize_writes>>
                   ELSE /\ response' = ContinueScript(session_id, ai_reply)
                        /\ UNCHANGED <<calls, finalize_writes>>

\* the loop resumes a suspended handler
Run(task) == RunAiResponse(task) \/ RunProcessAi(task)

NextLoop ==
    \/ \E path \in LoopPaths, session_id \in DOMAIN sessions,
          speech_result \in LoopSpeechResults : Accept(path, session_id, speech_result)
    \/ \E task \in event_loop.tasks : RunAiResponse(task)
    \/ \E task \in event_loop.tasks : RunProcessAi(task)
    \/ \E model \in LoopModelOutcomes : ModelReturns(model)

SpecLoop == InitLoop /\ [][NextLoop]_vars

\* a handler of another call is suspended while the loop is inside the model
\* invocation of this one
WaitsBehindModel(task) ==
    /\ task \in event_loop.tasks
    /\ ~LoopFree
    /\ task.session_id # event_loop.running.session_id

\* C19: while the processing step of one call waits on the model invocation,
\* a suspended handler of another session token can run to its return.
C19_OtherTokensProceed ==
    \A task \in event_loop.tasks : WaitsBehindModel(task) => ENABLED Run(task)

\* the processing step took an utterance in this step
Consumes(session_id) == invocations'[session_id] = invocations[session_id] + 1

\* C20: with any number of handlers of one session token in flight, a step
\* that consumes the pending utterance removes it from the session in the same
\* step and holds exactly that utterance, so no second processing step finds
\* it; turn_index grows by one with every consumed utterance and by nothing
\* else, so it equals the number of consumed utterances.
C20_SessionUpdatesAtomic ==
    [][ \A session_id \in DOMAIN sessions :
          /\ Consumes(session_id) =>
                /\ sessions[session_id].pending_speech # PyNone
                /\ sessions'[session_id].pending_speech = PyNone
                /\ event_loop'.running.user_speech = sessions[session_id].pending_speech
                /\ sessions'[session_id].turn_index = sessions[session_id].turn_index + 1
          /\ ~Consumes(session_id) =>
                /\ invocations'[session_id] = invocations[session_id]
                /\ sessions'[session_id].turn_index = sessions[session_id].turn_index
          /\ sessions'[session_id].turn_index = invocations'[session_id] ]_vars

\* two processing steps of one token were in flight with one utterance
\* pending: one holds it inside the model invocation, the other is still
\* suspended and will find none
C20_Witness ==
    \E task \in event_loop.tasks :
        /\ task.path = "/twilio/process-ai"
        /\ task.session_id = event_loop.running.session_id
        /\ event_loop.running.user_speech = Utterance
        /\ sessions[task.session_id].pending_speech = PyNone
        /\ sessions[task.session_id].turn_index = 1

---------------------------------------------------------------------------
\* The outcome of a call record over the callbacks of its session

\* C21: once final_decision of a call row is set, no later callback changes it
\* to a different value, except the transfer-outcome callback turning
\* "transferred" into transfer_failed_<status>.
C21_OutcomeSetOnce ==
    [][ \A c \in 1..Len(calls) :
          calls[c].final_decision # Null =>
              \/ calls'[c].final_decision = calls[c].final_decision
              \/ /\ calls[c].final_decision = <<"transferred">>
                 /\ \E dial_call_status \in DialCallStatuses :
                        calls'[c].final_decision = TransferOutcomeDecision(dial_call_status) ]_vars

---------------------------------------------------------------------------
\* src/database.py: the log store by itself, written to with the arguments
\* the handlers pass

\* update_call_summary_and_outcome: UPDATE calls SET summary, outcome WHERE id
update_call_summary_and_outcome(cs, call_id, summary, outcome) ==
    [cs EXCEPT ![call_id] = [@ EXCEPT !.summary = summary, !.outcome = outcome]]

\* main.py:97, 225, 326, 343, 389: (final_decision, summary, outcome)
FinalizeArguments ==
    { <<<<"transferred_exception">>, <<"Exception contact, direct transfer.">>,
        <<"exception_transfer">>>>,
      <<NoSpeechFinalDecision, Null, Null>>,
      <<<<"transferred">>, TransferSummary(Utterance), <<"transferred">>>>,
      <<<<"completed">>, EndSummary(Utterance), <<"ended">>>> }
      \cup { <<TransferOutcomeDecision(s), Null, Null>> : s \in DialCallStatuses }

\* (summary, outcome) for update_call_summary_and_outcome, which has no caller
SummaryArguments == { <<Null, Null>>, <<EndSummary(Utterance), <<"ended">>>> }

LogFrame ==
    UNCHANGED <<sessions, conversation, exception_phone_numbers, response,
                finalize_writes, invocations, results, event_loop>>

LogNewCall(caller_id) ==
    /\ Len(calls) <= MaxCalls
    /\ calls' = log_new_call(calls, caller_id)
    /\ LogFrame

LogFinalDecision(call_id, arguments) ==
    /\ calls' = log_final_decision(calls, call_id, arguments[1], arguments[2], arguments[3])
    /\ LogFrame

UpdateCallSummaryAndOutcome(call_id, arguments) ==
    /\ calls' = update_call_summary_and_outcome(calls, call_id, arguments[1], arguments[2])
    /\ LogFrame

NextLog ==
    \/ \E caller_id \in Callers : LogNewCall(caller_id)
    \/ \E call_id \in 1..Len(calls), arguments \in FinalizeArguments :
           LogFinalDecision(call_id, arguments)
    \/ \E call_id \in 1..Len(calls), arguments \in SummaryArguments :
           UpdateCallSummaryAndOutcome(call_id, arguments)

SpecLog == Init /\ [][NextLog]_vars

\* C22: in every state of the log store a call row has end_time null exactly
\* when its final_decision is null.
C22_EndTimeIffDecision ==
    \A c \in 1..Len(calls) :
        (calls[c].end_time = Null) <=> (calls[c].final_decision = Null)

\* a finalized row whose summary was updated afterwards, beside a row that is
\* still open
C22_Witness ==
    \E c, d \in 1..Len(calls) :
        /\ calls[c].final_decision = NoSpeechFinalDecision
        /\ calls[c].end_time = UtcNow
        /\ calls[c].summary = EndSummary(Utterance)
        /\ calls[d].final_decision = Null
        /\ calls[d].end_time = Null

---------------------------------------------------------------------------
\* Two finalize writes on one call row

\* the row a finalize leaves: its own four fields, the rest of the row as it was
Finalized(row, final_decision, summary, outcome) ==
    [caller_id |-> row.caller_id, start_time |-> row.start_time, end_time |-> UtcNow,
     final_decision |-> final_decision, summary |-> summary, outcome |-> outcome]

\* C23: whichever of the processing step's terminal write and the
\* transfer-outcome write comes later, and whatever the row held before, the
\* row afterwards holds end_time, final_decision, summary and outcome of that
\* later write alone, and the write is not refused on a finalized row.
C23_LastFinalizeWins ==
    [][ /\ response'.hangup =>
            \A session_id \in DOMAIN sessions, dial_call_status \in DialCallStatuses :
                twilio_transfer_fallback(session_id, dial_call_status) =>
                    calls'[sessions[session_id].call_id] =
                        Finalized(calls[sessions[session_id].call_id],
                                  TransferOutcomeDecision(dial_call_status), Null, Null)
        /\ (~response'.hangup /\ response'.gather = NoUrl) =>
            \A session_id \in DOMAIN sessions :
                LET call_id == sessions[session_id].call_id
                    user_speech == sessions[session_id].pending_speech
                    history == sessions'[session_id].bot.history
                IN  ( /\ user_speech # PyNone
                      /\ session_id \in DOMAIN sessions'
                      /\ Len(history) = Len(sessions[session_id].bot.history) + 2 ) =>
                        LET model == Replied(history[Len(history)].content)
                        IN  ( /\ Decision(model.text) # "continue"
                              /\ Processes(session_id, model) ) =>
                                calls'[call_id] =
                                    IF Decision(model.text) = "transfer"
                                    THEN Finalized(calls[call_id], <<"transferred">>,
                                                   TransferSummary(user_speech),
                                                   <<"transferred">>)
                                    ELSE Finalized(calls[call_id], <<"completed">>,
                                                   EndSummary(user_speech), <<"ended">>) ]_vars

\* the processing step's transfer write came after a transfer-outcome write
\* on the same row
C23_Witness ==
    \E c \in 1..Len(calls) :
        /\ finalize_writes[c] = "many"
        /\ calls[c].final_decision = <<"transferred">>
        /\ calls[c].summary = TransferSummary(Utterance)
        /\ calls[c].outcome = <<"transferred">>

---------------------------------------------------------------------------
\* The turn index of the logged rows

\* the rows of the conversation table logged for a call, in insertion order
TurnRows(call_id) ==
    SelectSeq(conversation, LAMBDA row : row.call_id = call_id)

\* C24: every conversation row has turn_index >= 0, and the k-th processed
\* caller turn of a call (k = 0, 1, ...) is logged with turn_index k on its
\* caller row and on its system row.
C24_TurnIndexFromZero ==
    \A c \in 1..Len(calls) :
        \A i \in 1..Len(TurnRows(c)) :
            /\ TurnRows(c)[i].turn_index >= 0
            /\ TurnRows(c)[i].turn_index = (i - 1) \div 2

---------------------------------------------------------------------------
\* src/database.py: get_recent_conversations.  start_time here is the instant
\* the ISO text stands for (texts of datetime.isoformat() compare as their
\* instants); two calls may carry the same instant.

\* log_new_call at the instant now
log_new_call_at(cs, caller_id, now) ==
    [log_new_call(cs, caller_id) EXCEPT ![Len(cs) + 1].start_time = now]

\* the instants utcnow() can give the next call: the last one again, or later
Instants(cs) ==
    IF cs = <<>> THEN {1} ELSE {cs[Len(cs)].start_time, cs[Len(cs)].start_time + 1}

\* FROM calls c LEFT JOIN conversation conv ON c.id = conv.call_id: a joined
\* row is <<call id, conversation row id>>, with 0 for the NULL columns of a
\* call that has no turn
JoinedRows(cs, conv) ==
    { <<c, i>> \in (1..Len(cs)) \X (1..Len(conv)) : conv[i].call_id = c }
        \cup { <<c, 0>> : c \in { d \in 1..Len(cs) :
                                     \A i \in 1..Len(conv) : conv[i].call_id # d } }

\* ORDER BY c.start_time DESC, conv.turn_index ASC allows row r before row q
MayPrecede(cs, conv, r, q) ==
    \/ cs[r[1]].start_time > cs[q[1]].start_time
    \/ /\ cs[r[1]].start_time = cs[q[1]].start_time
       /\ \/ r[2] = 0
          \/ q[2] # 0 /\ conv[r[2]].turn_index <= conv[q[2]].turn_index

\* every order in which the statement may return the rows
RECURSIVE RowOrders(_, _, _)
RowOrders(cs, conv, rows) ==
    IF rows = {} THEN { <<>> }
    ELSE UNION { { <<r>> \o rest : rest \in RowOrders(cs, conv, rows \ {r}) } :
                 r \in { r \in rows : \A q \in rows : MayPrecede(cs, conv, r, q) } }

\* database.py:352-378: the loop that groups the fetched rows by call, as the
\* list of the dict's values
RECURSIVE GroupByCall(_, _, _)
GroupByCall(cs, conv, rows) ==
    IF rows = <<>> THEN <<>>
    ELSE LET done == GroupByCall(cs, conv, SubSeq(rows, 1, Len(rows) - 1))
             row == rows[Len(rows)]
             call_id == row[1]
             known == \E k \in 1..Len(done) : done[k].call_id = call_id
             opened == IF known THEN done
                       ELSE Append(done, [call_id |-> call_id,
                                          caller_id |-> cs[call_id].caller_id,
                                          start_time |-> cs[call_id].start_time,
                                          end_time |-> cs[call_id].end_time,
                                          final_decision |-> cs[call_id].final_decision,
                                          conversation |-> <<>>])
             k == CHOOSE k \in 1..Len(opened) : opened[k].call_id = call_id
         IN  IF row[2] = 0 THEN opened
             ELSE [opened EXCEPT ![k].conversation =
                       Append(@, [turn_index |-> conv[row[2]].turn_index,
                                  speaker |-> conv[row[2]].speaker,
                                  text |-> conv[row[2]].text])]

\* list[:limit]
PySlice(s, limit) ==
    IF limit >= 0 THEN Slice(s, limit)
    ELSE SubSeq(s, 1, IF Len(s) + limit < 0 THEN 0 ELSE Len(s) + limit)

\* a variant that cuts the fetched rows, not the grouped calls
get_recent_conversations_cut_rows(cs, conv, rows, limit) ==
    GroupByCall(cs, conv, PySlice(rows, limit))
\* database.py:381: list(conversations.values())[:limit], for the rows as fetched
get_recent_conversations(cs, conv, rows, limit) ==
    PySlice(GroupByCall(cs, conv, rows), limit)

\* GET /conversations?limit=
Limits == 0..(MaxCalls + 2)

\* rows are written until the query is made
RecentFrame ==
    UNCHANGED <<sessions, exception_phone_numbers, response, finalize_writes,
                invocations, event_loop>>

RecentNewCall(caller_id, now) ==
    /\ results = <<>>
    /\ Len(calls) + Len(conversation) \div 2 < MaxOps
    /\ calls' = log_new_call_at(calls, caller_id, now)
    /\ UNCHANGED <<conversation, results>>
    /\ RecentFrame

\* main.py:284, 322-323: the next processed turn of a call
RecentTurn(call_id) ==
    /\ results = <<>>
    /\ Len(calls) + Len(conversation) \div 2 < MaxOps
    /\ conversation' = LogTurn(conversation, call_id,
                               Len(SelectSeq(conversation,
                                             LAMBDA row : row.call_id = call_id)) \div 2,
                               Utterance, ReplyContinue)
    /\ UNCHANGED <<calls, results>>
    /\ RecentFrame

RecentQuery(limit) ==
    /\ results = <<>>
    /\ \E rows \in RowOrders(calls, conversation, JoinedRows(calls, conversation)) :
           results' = <<Result("get_recent_conversations", limit,
                               get_recent_conversations(calls, conversation, rows, limit))>>
    /\ UNCHANGED <<calls, conversation>>
    /\ RecentFrame

NextRecent ==
    \/ \E caller_id \in CallbackCallers, now \in Instants(calls) :
           RecentNewCall(caller_id, now)
    \/ \E call_id \in 1..Len(calls) : RecentTurn(call_id)
    \/ \E limit \in Limits : RecentQuery(limit)

SpecRecent == Init /\ [][NextRecent]_vars

\* how often e occurs in s
Occurrences(s, e) == Cardinality({ i \in 1..Len(s) : s[i] = e })

\* the turns logged for a call, as the query reports a turn
LoggedTurns(call_id) ==
    LET rows == TurnRows(call_id)
    IN  [ i \in 1..Len(rows) |->
            [turn_index |-> rows[i].turn_index, speaker |-> rows[i].speaker,
             text |-> rows[i].text] ]

\* C25: for limit >= 0, get_recent_conversations(limit) returns
\* min(limit, number of calls) calls, each once, in descending start_time
\* order, and no call left out started later than a returned one; each
\* returned call carries exactly the turns logged for it, in ascending
\* turn_index order (none for a call without turns).
C25_RecentConversations ==
    results # <<>> =>
        LET limit == results[1].arg
            value == results[1].value
        IN  /\ Len(value) = MinOf({limit, Len(calls)})
            /\ \A j, k \in 1..Len(value) :
                   j < k => /\ value[j].call_id # value[k].call_id
                            /\ value[j].start_time >= value[k].start_time
            /\ \A k \in 1..Len(value) :
                   LET call_id == value[k].call_id
                       turns == value[k].conversation
                   IN  /\ call_id \in 1..Len(calls)
                       /\ value[k].start_time = calls[call_id].start_time
                       /\ value[k].caller_id = calls[call_id].caller_id
                       /\ \A c \in 1..Len(calls) :
                              (\A j \in 1..Len(value) : value[j].call_id # c) =>
                                  calls[c].start_time <= value[k].start_time
                       /\ Len(turns) = Len(LoggedTurns(call_id))
                       /\ \A i \in 1..Len(turns) :
                              Occurrences(turns, turns[i]) =
                                  Occurrences(LoggedTurns(call_id), turns[i])
                       /\ \A i, j \in 1..Len(turns) :
                              i < j => turns[i].turn_index <= turns[j].turn_index

\* a query with limit 1 over two calls that started at the same instant and
\* have one logged turn each: their rows come interleaved, and the returned
\* call has both of its rows
C25_Witness ==
    /\ results # <<>>
    /\ results[1].arg = 1
    /\ Len(calls) = 2
    /\ calls[1].start_time = calls[2].start_time
    /\ Len(TurnRows(1)) = 2
    /\ Len(TurnRows(2)) = 2
    /\ Len(results[1].value) = 1
    /\ Len(results[1].value[1].conversation) = 2

---------------------------------------------------------------------------
\* The sessions map

\* C26: no step removes a session token from the sessions map; a token that
\* exists stays in every later state, also when its call is finalized.
C26_SessionsOnlyGrow ==
    [][ DOMAIN sessions \subseteq DOMAIN sessions' ]_vars

\* a call finalized as completed whose session is still in the map
C26_Witness ==
    \E session_id \in DOMAIN sessions :
        /\ calls[sessions[session_id].call_id].final_decision = <<"completed">>
        /\ sessions[session_id].turn_index = 1
        /\ sessions[session_id].pending_speech = PyNone

---------------------------------------------------------------------------
\* Call start for a caller who is not an exception contact

\* C27: for a caller without an active exception entry, twilio_voice adds
\* exactly one session under a token not in use, with turn_index 0, the id of
\* the call row it just inserted and no pending speech; it invokes the model
\* for no session, leaves the new row unfinalized, and returns the greeting
\* with a speech collection whose callback carries that token and retry=0.
C27_CallStartCreatesSession ==
    [][ \A caller_id \in Callers :
          ( /\ ~HasActiveEntry(caller_id)
            /\ twilio_voice(caller_id) )
          => /\ Cardinality(DOMAIN sessions' \ DOMAIN sessions) = 1
             /\ \A t \in DOMAIN sessions : sessions'[t] = sessions[t]
             /\ Len(calls') = Len(calls) + 1
             /\ \A t \in DOMAIN sessions' \ DOMAIN sessions :
                    /\ sessions'[t].turn_index = 0
                    /\ sessions'[t].call_id = Len(calls')
                    /\ sessions'[t].pending_speech = PyNone
                    /\ sessions'[t].bot = NewBot
                    /\ response'.say = SayGreeting
                    /\ response'.gather = Url("/twilio/ai-response", t, 0)
                    /\ response'.redirect = Url("/twilio/ai-response", t, 0)
                    /\ response'.dial = NoDial
             /\ NoInvocation
             /\ calls'[Len(calls')].caller_id = caller_id
             /\ calls'[Len(calls')].final_decision = Null
             /\ calls'[Len(calls')].end_time = Null
             /\ finalize_writes'[Len(calls')] = "zero"
             /\ \A c \in 1..Len(calls) : calls'[c] = calls[c] ]_vars

\* the soft-deleted contact has called: a greeting, a fresh session, an open row
C27_Witness ==
    \E t \in DOMAIN sessions :
        /\ response.say = SayGreeting
        /\ response.gather = Url("/twilio/ai-response", t, 0)
        /\ sessions[t] = NewSession(1)
        /\ calls[1].caller_id = ExE164
        /\ ~HasActiveEntry(ExE164)
        /\ calls[1].final_decision = Null
        /\ invocations[t] = 0

---------------------------------------------------------------------------
\* Speech callbacks and model invocations, counted.  results records every
\* speech callback that carried speech, with the session it buffered it on.

SpeechSessionParams == {NoSession} \cup DOMAIN sessions
SpeechRetryParams == {<<"0">>, <<"1">>}

\* the session a speech callback works on (main.py:178-186)
SessionOf(session_id) ==
    IF Missing(session_id) THEN uuid4(sessions) ELSE session_id

SpeechCallback(session_id, retry_param, user_speech) ==
    /\ twilio_ai_response(session_id, retry_param, user_speech, ExE164)
    /\ IF Strip(user_speech) # <<>>
       THEN /\ Len(results) <= MaxTurns
            /\ results' = Append(results, Result("speech", SessionOf(session_id),
                                                 user_speech))
       ELSE UNCHANGED results
    /\ UNCHANGED event_loop

NextSpeech ==
    \/ twilio_voice(ExE164) /\ Idle
    \/ \E session_id \in SpeechSessionParams, retry_param \in SpeechRetryParams,
          user_speech \in StoreSpeechResults :
           SpeechCallback(session_id, retry_param, user_speech)
    \/ \E session_id \in SpeechSessionParams, model \in ModelOutcomes :
           twilio_process_ai(session_id, model) /\ Idle

SpecSpeech == Init /\ [][NextSpeech]_vars

\* the speech callbacks so far that carried speech for the session
SpeechCallbacks(history, session_id) ==
    Cardinality({ i \in 1..Len(history) : history[i].arg = session_id })

\* C28: a speech callback with speech buffers the utterance on the session and
\* returns the hold script that redirects to the processing step, invoking
\* the model for no session; a step that invokes the model invokes it once,
\* for a session with a buffered utterance, which it consumes; and a
\* session's invocations never exceed its speech callbacks that carried
\* speech.
C28_InvocationsFollowSpeech ==
    [][ /\ \A session_id \in SpeechSessionParams, retry_param \in SpeechRetryParams,
              user_speech \in StoreSpeechResults :
              ( /\ Strip(user_speech) # <<>>
                /\ response'.say = SayOneMoment
                /\ SpeechCallback(session_id, retry_param, user_speech) )
              => /\ sessions'[SessionOf(session_id)].pending_speech = user_speech
                 /\ response' = HoldScript(SessionOf(session_id))
                 /\ NoInvocation
                 /\ conversation' = conversation
                 /\ \A t \in DOMAIN sessions :
                        /\ sessions'[t].bot = sessions[t].bot
                        /\ sessions'[t].turn_index = sessions[t].turn_index
        /\ \A t \in DOMAIN sessions :
              invocations'[t] # invocations[t] =>
                  /\ invocations'[t] = invocations[t] + 1
                  /\ ~NoSpeech(sessions[t].pending_speech)
                  /\ sessions'[t].pending_speech = PyNone
                  /\ results' = results
        /\ \A t \in DOMAIN sessions' :
              invocations'[t] <= SpeechCallbacks(results', t) ]_vars

\* two speech callbacks carried speech for a session and one was processed
C28_Witness ==
    \E t \in DOMAIN sessions :
        /\ SpeechCallbacks(results, t) = 2
        /\ invocations[t] = 1
        /\ sessions[t].pending_speech = Utterance

---------------------------------------------------------------------------
\* The outcome of a processing step, and the order of its writes: the
\* processing step of SpecReply with a store statement that may raise

NextOutcome ==
    \E model \in ReplyOutcomes, failing \in ProcessStoreOps :
        twilio_process_ai_store(TokenOne, model, failing) /\ Idle

SpecOutcome == InitReply /\ [][NextOutcome]_vars

\* C29: a processing step that gets a reply and whose writes succeed routes by
\* the decision: transfer finalizes the call as transferred with the transfer
\* summary and returns a dial whose action address carries the session token;
\* end finalizes it as completed and returns spoken text only; continue
\* writes no finalize.  In a terminal branch both turn rows are written before
\* the finalize: when the finalize statement raises the two rows are in the
\* table, and when a turn row statement raises no finalize has been written.
C29_OutcomeByDecision ==
    [][ LET session_id == TokenOne
            call_id == sessions[session_id].call_id
            user_speech == sessions[session_id].pending_speech
            history == sessions'[session_id].bot.history
        IN  (~NoSpeech(user_speech) /\ Len(history) = Len(sessions[session_id].bot.history) + 2) =>
              LET r == history[Len(history)].content
              IN  /\ twilio_process_ai_store(session_id, Replied(r), NoFailure) =>
                        IF Decision(r) = "transfer"
                        THEN /\ calls'[call_id] =
                                    Finalized(calls[call_id], <<"transferred">>,
                                              TransferSummary(user_speech),
                                              <<"transferred">>)
                             /\ response'.say = CleanReply(r)
                             /\ response'.dial.number = REAL_PHONE_NUMBER
                             /\ response'.dial.action =
                                    Url("/twilio/transfer-fallback", session_id, NoRetry)
                             /\ response'.gather = NoUrl
                             /\ response'.redirect = NoUrl
                             /\ TurnRowsAdded(session_id, r)
                        ELSE IF Decision(r) = "end"
                        THEN /\ calls'[call_id] =
                                    Finalized(calls[call_id], <<"completed">>,
                                              EndSummary(user_speech), <<"ended">>)
                             /\ response'.say = CleanReply(r)
                             /\ TerminalScript(response')
                             /\ TurnRowsAdded(session_id, r)
                        ELSE /\ calls' = calls
                             /\ finalize_writes' = finalize_writes
                  /\ twilio_process_ai_store(session_id, Replied(r), "log_final_decision") =>
                        /\ TurnRowsAdded(session_id, r)
                        /\ calls' = calls
                  /\ \A failing \in {"log_conversation_turn_user",
                                     "log_conversation_turn_bot"} :
                        twilio_process_ai_store(session_id, Replied(r), failing) =>
                            /\ calls' = calls
                            /\ Len(conversation') < Len(conversation) + 2 ]_vars

\* a call finalized as completed by a reply carrying {END CALL}, its two turn
\* rows logged, the reply spoken without the marker
C29_Witness ==
    /\ calls[1].final_decision = <<"completed">>
    /\ calls[1].summary = EndSummary(Utterance)
    /\ Len(conversation) = 2
    /\ Contains(conversation[2].text, END_CALL)
    /\ response = EndScript(CleanReply(conversation[2].text))
    /\ sessions[TokenOne].pending_speech = PyNone
---------------------------------------------------------------------------
\* The carrier follows the scripts: each callback goes to the address the last
\* script named, and `results` keeps the addresses called for the call

\* the text of the query parameter "retry" in an address the service wrote
\* (main.py:129 and 348 "retry=0", 206 and 290 "retry=1")
RetryParamOf(url) == IF url.retry = 0 THEN <<"0">> ELSE <<"1">>

\* the caller dials in; twilio_voice answers, with a session unless the caller
\* is on the exception list
FollowCall(caller_id) ==
    /\ twilio_voice(caller_id)
    /\ results' = Append(results,
                         Result("call",
                                Url("/twilio/voice",
                                    IF is_exception_phone_number(exception_phone_numbers,
                                                                 caller_id)
                                    THEN NoSession ELSE uuid4(sessions),
                                    NoRetry),
                                caller_id))
    /\ UNCHANGED event_loop

\* <Gather action> with what the caller said, or the <Redirect> behind it with
\* nothing when the caller stayed silent: both name the same address
FollowGather(user_speech) ==
    LET action_url == response.gather
    IN  /\ action_url # NoUrl
        /\ Len(results) <= MaxOps + 1
        /\ twilio_ai_response(action_url.session_id, RetryParamOf(action_url),
                              user_speech, ExE164)
        /\ results' = Append(results,
                             Result(IF Strip(user_speech) # <<>> THEN "speech" ELSE "silent",
                                    action_url, user_speech))
        /\ UNCHANGED event_loop

\* the <Redirect> of the hold script
FollowRedirect(model) ==
    LET process_url == response.redirect
    IN  /\ response.gather = NoUrl
        /\ process_url # NoUrl
        /\ Len(results) <= MaxOps + 1
        /\ twilio_process_ai(process_url.session_id, model)
        /\ results' = Append(results, Result("process", process_url, model.text))
        /\ UNCHANGED event_loop

\* the <Dial action> once the dial is over
FollowDial(dial_call_status) ==
    LET fallback_url == response.dial.action
    IN  /\ fallback_url # NoUrl
        /\ Len(results) <= MaxOps + 1
        /\ twilio_transfer_fallback(fallback_url.session_id, dial_call_status)
        /\ results' = Append(results, Result("dial", fallback_url, <<dial_call_status>>))
        /\ UNCHANGED event_loop

\* what the caller may say: nothing, blanks only, one of two utterances
FollowSpeechResults == SpeechResults \cup {<<"n","o">>}
\* what the model may do: one of the replies of Spec, raise, return no content
FollowModelOutcomes == ModelOutcomes \cup {NoContent}

NextFollow ==
    \/ \E caller_id \in Callers : FollowCall(caller_id)
    \/ \E user_speech \in FollowSpeechResults : FollowGather(user_speech)
    \/ \E model \in FollowModelOutcomes : FollowRedirect(model)
    \/ \E dial_call_status \in DialCallStatuses : FollowDial(dial_call_status)

SpecFollow == Init /\ [][NextFollow]_vars

\* the addresses called for one session, in order
CalledFor(history, session_id) ==
    SelectSeq(history, LAMBDA r : r.arg.session_id = session_id)

\* C30: a processing step that continues returns a speech collection whose
\* callback address carries retry 0, under whichever retry the utterance was
\* collected; a silent callback at that address re-prompts and finalizes
\* nothing; and a call that ended for no speech ended on the second of two
\* consecutive silent callbacks, the first at retry 0 and the second at retry 1.
C30_RetryRestartsOnContinue ==
    \A t \in DOMAIN sessions :
        LET called == CalledFor(results, t)
            n == Len(called)
            final_decision == calls[sessions[t].call_id].final_decision
        IN  /\ final_decision = NoSpeechFinalDecision =>
                  /\ n >= 3
                  /\ called[n - 1].op = "silent" /\ called[n - 1].arg.retry = 0
                  /\ called[n].op = "silent" /\ called[n].arg.retry = 1
            /\ \A k \in 1..(n - 1) :
                  (called[k].op = "process" /\ called[k].value # PyNone
                     /\ Decision(called[k].value) = "continue") =>
                      /\ called[k + 1].arg = Url("/twilio/ai-response", t, 0)
                      /\ (called[k + 1].op = "silent" /\ k + 1 = n) =>
                            /\ final_decision = Null
                            /\ results[Len(results)].arg.session_id = t =>
                                  response = RepromptScript(t)

\* an utterance collected at retry 1, a reply that continues, then two silent
\* callbacks, at retry 0 and at retry 1, the second of which ended the call
C30_Witness ==
    /\ Len(results) = 6
    /\ results[1].op = "call"
    /\ results[2].op = "silent" /\ results[2].arg.retry = 0
    /\ results[3].op = "speech" /\ results[3].arg.retry = 1
    /\ results[4].op = "process" /\ results[4].value = ReplyContinue
    /\ results[5].op = "silent" /\ results[5].arg.retry = 0
    /\ results[6].op = "silent" /\ results[6].arg.retry = 1
    /\ calls[1].final_decision = NoSpeechFinalDecision
    /\ response = NoSpeechByeScript
---------------------------------------------------------------------------
\* Speech callbacks that name no session the service knows: no call was ever
\* answered by twilio_voice, so every session here was made by a callback

\* form "From" of the callback: a number in one of its spellings, or the
\* default of form.get("From", "unknown")
RecoverCallers == MomSpellings \cup {ExE164, <<"unknown">>}

NextRecover ==
    \E session_id \in SessionParams, retry \in RetryParams,
          user_speech \in SpeechResults, caller_id \in RecoverCallers :
            twilio_ai_response(session_id, retry, user_speech, caller_id) /\ Idle

SpecRecover == Init /\ [][NextRecover]_vars

\* C31: a speech callback whose session token is absent or unknown makes one
\* new session under a fresh token, with turn index 0, an empty history and
\* the call row it has just created, leaves the other sessions alone, and then
\* answers as it does for a known session: the hold script when there is
\* speech, the re-prompt at retry 0, the goodbye with the no-speech finalize
\* otherwise; never the apology script.
C31_MissingSessionRecovered ==
    [][ \A session_id \in {NoSession, BogusSession}, retry_param \in RetryParams,
           user_speech \in SpeechResults, caller_id \in RecoverCallers :
          (~IntRaises(retry_param)
             /\ Len(calls') = Len(calls) + 1
             /\ calls'[Len(calls')].caller_id = caller_id
             /\ twilio_ai_response(session_id, retry_param, user_speech, caller_id)) =>
              LET sid == uuid4(sessions)
                  call_id == Len(calls) + 1
                  spoke == Strip(user_speech) # <<>>
              IN  /\ sid \notin DOMAIN sessions
                  /\ DOMAIN sessions' = DOMAIN sessions \cup {sid}
                  /\ \A t \in DOMAIN sessions : sessions'[t] = sessions[t]
                  /\ sessions'[sid].turn_index = 0
                  /\ sessions'[sid].bot.history = <<>>
                  /\ sessions'[sid].call_id = call_id
                  /\ sessions'[sid].pending_speech = IF spoke THEN user_speech ELSE PyNone
                  /\ Len(calls') = call_id
                  /\ SubSeq(calls', 1, Len(calls)) = calls
                  /\ calls'[call_id].caller_id = caller_id
                  /\ invocations'[sid] = 0
                  /\ conversation' = conversation
                  /\ response' # ErrorScript
                  /\ response' = IF spoke THEN HoldScript(sid)
                                 ELSE IF IntOf(retry_param) = 0 THEN RepromptScript(sid)
                                 ELSE NoSpeechByeScript
                  /\ calls'[call_id].final_decision =
                         IF ~spoke /\ IntOf(retry_param) # 0
                         THEN NoSpeechFinalDecision ELSE Null ]_vars

\* a callback from a caller no call was answered for: its session, its call
\* row, its utterance buffered and the hold script returned
C31_Witness ==
    /\ DOMAIN sessions = {uuid4(<<>>)}
    /\ Len(calls) = 1
    /\ calls[1].caller_id = <<"unknown">>
    /\ sessions[uuid4(<<>>)].call_id = 1
    /\ sessions[uuid4(<<>>)].turn_index = 0
    /\ sessions[uuid4(<<>>)].pending_speech = <<"h","i">>
    /\ response = HoldScript(uuid4(<<>>))
---------------------------------------------------------------------------
\* Processing and transfer-outcome callbacks that name no session

\* C32: a processing-step callback or a transfer-outcome callback whose token
\* is absent or unknown changes no session, no call row, no turn row and no
\* allow-list row and invokes the model zero times; the processing step
\* returns the apology script, the transfer-outcome callback the hangup or
\* the on-another-call message followed by the hangup.
C32_UnknownTokenChangesNothing ==
    [][ \A session_id \in {NoSession, BogusSession} :
          /\ response' = ErrorScript =>
                \A model \in ModelOutcomes :
                    twilio_process_ai(session_id, model) =>
                        /\ sessions' = sessions
                        /\ calls' = calls
                        /\ conversation' = conversation
                        /\ exception_phone_numbers' = exception_phone_numbers
                        /\ invocations' = invocations
                        /\ finalize_writes' = finalize_writes
          /\ response'.hangup =>
                \A dial_call_status \in DialCallStatuses :
                    twilio_transfer_fallback(session_id, dial_call_status) =>
                        /\ sessions' = sessions
                        /\ calls' = calls
                        /\ conversation' = conversation
                        /\ exception_phone_numbers' = exception_phone_numbers
                        /\ invocations' = invocations
                        /\ finalize_writes' = finalize_writes
                        /\ response' = IF dial_call_status = "completed"
                                       THEN HangupScript ELSE TransferFailedScript ]_vars

\* a transferred call whose outcome survived a transfer-outcome callback: the
\* callback named no session of the service
C32_Witness ==
    /\ Len(calls) = 1
    /\ calls[1].final_decision = <<"transferred">>
    /\ finalize_writes[1] = "one"
    /\ response = TransferFailedScript
    /\ DOMAIN sessions # {}
---------------------------------------------------------------------------
\* src/prompts.py, src/bot.py: the messages sent to the model

\* prompts.py:119-134: the screening policy, a string literal at module level
\* behind the function's bare `return`
SCREENING_POLICY == <<"You are Vansh's AI call screener. You only answer calls when Vansh is working or sleeping. ...">>

\* prompts.py:55-79: get_system_prompt() ends in `return` with no value
get_system_prompt == PyNone

\* bot.py:101-104: [{"role": "system", "content": system_prompt}] + self.history
messages_sent(history) ==
    <<[role |-> "system", content |-> get_system_prompt]>> \o history

\* the processing step, with the messages of its model invocation kept
ProcessAiRequest(session_id, model) ==
    /\ twilio_process_ai(session_id, model)
    /\ IF ~Missing(session_id) /\ ~NoSpeech(sessions[session_id].pending_speech)
       THEN results' = Append(results,
                              Result("create", session_id,
                                     messages_sent(add_user_message(
                                         sessions[session_id].bot,
                                         sessions[session_id].pending_speech).history)))
       ELSE UNCHANGED results
    /\ UNCHANGED event_loop

NextRequest ==
    \/ \E caller_id \in Callers : twilio_voice(caller_id) /\ Idle
    \/ \E session_id \in SessionParams, retry \in RetryParams,
          user_speech \in SpeechResults, caller_id \in CallbackCallers :
            twilio_ai_response(session_id, retry, user_speech, caller_id) /\ Idle
    \/ \E session_id \in SessionParams, model \in ModelOutcomes :
            ProcessAiRequest(session_id, model)

SpecRequest == Init /\ [][NextRequest]_vars

\* C33: the messages of every model invocation are one system message whose
\* content is the screening policy, followed by the session's history as it
\* stood at the invocation, in order and complete.
C33_PolicyThenHistory ==
    \A k \in 1..Len(results) :
        results[k].op = "create" =>
            LET messages == results[k].value
                history == sessions[results[k].arg].bot.history
            IN  /\ Len(messages) >= 2
                /\ messages[1] = [role |-> "system", content |-> SCREENING_POLICY]
                /\ Len(history) >= Len(messages) - 1
                /\ Tail(messages) = SubSeq(history, 1, Len(messages) - 1)
                /\ \A i \in 2..Len(messages) : messages[i].role # "system"
---------------------------------------------------------------------------
\* src/bot.py: the turn-count logic of the bot, and calls that are some turns old

\* bot.py:232, 254: [msg for msg in self.history if msg["role"] == "user"]
user_messages(bot) == SelectSeq(bot.history, LAMBDA msg : msg.role = "user")

\* bot.py:216-236
should_continue_conversation(bot) ==
    IF bot.transfer_decision \/ bot.voicemail_decision THEN FALSE
    ELSE IF Len(user_messages(bot)) >= 2 THEN FALSE
    ELSE TRUE

\* bot.py:238-258
should_end_call(bot) ==
    IF bot.transfer_decision \/ bot.voicemail_decision THEN FALSE
    ELSE IF Len(user_messages(bot)) >= 2 THEN TRUE
    ELSE FALSE

\* the session and the turn rows after n turns in which the caller said
\* Utterance and the model replied ReplyContinue (main.py:301-305, 359-360)
RECURSIVE SessionAfter(_)
SessionAfter(n) ==
    IF n = 0 THEN NewSession(1)
    ELSE [SessionAfter(n - 1) EXCEPT
              !.bot = get_response(add_user_message(@, Utterance), ReplyContinue),
              !.turn_index = @ + 1]

RECURSIVE ConversationAfter(_)
ConversationAfter(n) ==
    IF n = 0 THEN <<>>
    ELSE LogTurn(ConversationAfter(n - 1), 1, n - 1, Utterance, ReplyContinue)

\* a call that is 0 to MaxPriorTurns turns old, its next utterance buffered
InitTurns ==
    \E n \in 0..MaxPriorTurns :
        /\ sessions = (TokenOne :> [SessionAfter(n) EXCEPT !.pending_speech = Utterance])
        /\ calls = log_new_call(<<>>, ExE164)
        /\ conversation = ConversationAfter(n)
        /\ exception_phone_numbers = StoredExceptions
        /\ response = HoldScript(TokenOne)
        /\ finalize_writes = <<"zero">>
        /\ invocations = (TokenOne :> 0)
        /\ results = <<>>
        /\ event_loop = IdleLoop

\* replies without a marker that set neither flag of the bot, the transfer
\* flag, the voicemail flag; the replies of Spec; no reply
TurnsModelOutcomes ==
    {Replied(r) : r \in {<<"O","k">>, <<"N","o"," ">> \o WordTransfer,
                         <<"N","o"," ">> \o WordMessage}}
        \cup ModelOutcomes \cup {NoContent}

NextTurns ==
    \/ \E model \in TurnsModelOutcomes : twilio_process_ai(TokenOne, model) /\ Idle
    \/ \E retry \in SpeechRetryParams, user_speech \in SpeechResults :
            twilio_ai_response(TokenOne, retry, user_speech, ExE164) /\ Idle

SpecTurns == InitTurns /\ [][NextTurns]_vars

\* C34: a processing step with a buffered utterance and a reply that carries
\* no marker returns to speech collection and finalizes nothing, however many
\* turns the call has had and whatever should_end_call and
\* should_continue_conversation say of the bot before or after the step.
C34_TurnCountNeverRoutes ==
    [][ LET user_speech == sessions[TokenOne].pending_speech
            history == sessions'[TokenOne].bot.history
        IN  (~NoSpeech(user_speech)
               /\ Len(history) = Len(sessions[TokenOne].bot.history) + 2) =>
              LET r == history[Len(history)].content
              IN  (twilio_process_ai(TokenOne, Replied(r))
                     /\ ~Contains(r, TRANSFER) /\ ~Contains(r, END_CALL)) =>
                      /\ response'.say = r
                      /\ response'.gather = Url("/twilio/ai-response", TokenOne, 0)
                      /\ response'.redirect = Url("/twilio/ai-response", TokenOne, 0)
                      /\ response'.dial = NoDial
                      /\ ~response'.hangup
                      /\ calls' = calls
                      /\ finalize_writes' = finalize_writes
                      /\ sessions'[TokenOne].turn_index = sessions[TokenOne].turn_index + 1 ]_vars

\* the fourth turn of a call has just been processed: the bot's should_end_call
\* is true, and the script collects speech again with the call not finalized
C34_Witness ==
    /\ Len(user_messages(sessions[TokenOne].bot)) = MaxPriorTurns + 1
    /\ should_end_call(sessions[TokenOne].bot)
    /\ ~should_continue_conversation(sessions[TokenOne].bot)
    /\ response.gather = Url("/twilio/ai-response", TokenOne, 0)
    /\ response.say = <<"O","k">>
    /\ calls[1].final_decision = Null
    /\ invocations[TokenOne] = 1
---------------------------------------------------------------------------
\* Finalizes that bring no summary

\* C35: the no-speech finalize and the transfer-outcome write leave the call
\* row with summary and outcome null, whatever the row held: a summary written
\* at transfer time is gone after the transfer-outcome callback.
C35_FinalizeWithoutSummaryClears ==
    [][ \A t \in DOMAIN sessions :
          LET call_id == sessions[t].call_id
          IN  /\ response'.hangup =>
                    \A dial_call_status \in DialCallStatuses :
                        twilio_transfer_fallback(t, dial_call_status) =>
                            /\ calls'[call_id].final_decision =
                                   <<"transfer_failed_", dial_call_status>>
                            /\ calls'[call_id].summary = Null
                            /\ calls'[call_id].outcome = Null
                            /\ calls'[call_id].end_time # Null
              /\ response' = NoSpeechByeScript =>
                    \A retry_param \in RetryParams, user_speech \in SpeechResults,
                       caller_id \in CallbackCallers :
                        twilio_ai_response(t, retry_param, user_speech, caller_id) =>
                            /\ calls'[call_id].final_decision = <<"ended_no_speech">>
                            /\ calls'[call_id].summary = Null
                            /\ calls'[call_id].outcome = Null
                            /\ calls'[call_id].end_time # Null ]_vars

\* a call that was transferred, with its summary, and whose dial was not
\* answered: the row holds the transfer outcome and no summary
C35_Witness ==
    /\ Len(calls) = 1
    /\ Len(conversation) = 2
    /\ Contains(conversation[2].text, TRANSFER)
    /\ calls[1].final_decision = <<"transfer_failed_", "no-answer">>
    /\ calls[1].summary = Null
    /\ calls[1].outcome = Null
    /\ finalize_writes[1] = "many"
---------------------------------------------------------------------------
\* src/add_exception_simple.py, src/dashboard.py: the administration tools
\* write the exception list on their own, next to the functions of database.py

\* add_exception_simple.py:47-73 add_exception_direct and dashboard.py:51-66
\* add_exception: prefix "+" unless present, refuse an existing number, insert
add_exception_direct(table, phone_number, contact_name, category) ==
    IF \E i \in 1..Len(table) : table[i].phone_number = PlusPrefixed(phone_number)
    THEN table
    ELSE Append(table, [phone_number |-> PlusPrefixed(phone_number),
                        contact_name |-> contact_name, category |-> category,
                        added_date |-> UtcNow, is_active |-> TRUE])

\* add_exception_simple.py:128-149:
\* UPDATE ... SET is_active = 0 WHERE phone_number = ? AND is_active = 1
remove_exception_direct(table, phone_number) ==
    [i \in 1..Len(table) |->
        IF table[i].phone_number = PlusPrefixed(phone_number) /\ table[i].is_active
        THEN [table[i] EXCEPT !.is_active = FALSE]
        ELSE table[i]]

\* dashboard.py:68-76: UPDATE ... SET is_active = 0 WHERE phone_number = ?
remove_exception(table, phone) ==
    [i \in 1..Len(table) |->
        IF table[i].phone_number = PlusPrefixed(phone)
        THEN [table[i] EXCEPT !.is_active = FALSE]
        ELSE table[i]]

\* the operations of the tools and the service's own add
ToolOps ==
    {"add_exception_direct", "add_exception", "remove_exception_direct",
     "remove_exception", "restore_exception_direct", "restore_exception"}

\* one operation on the list; `results` holds the last operation applied
ToolOp(op, phone_number) ==
    /\ exception_phone_numbers' =
           IF op \in {"add_exception_direct", "add_exception"}
           THEN add_exception_direct(exception_phone_numbers, phone_number,
                                     ContactName(phone_number), Category(phone_number))
           ELSE IF op = "remove_exception_direct"
           THEN remove_exception_direct(exception_phone_numbers, phone_number)
           ELSE IF op = "remove_exception"
           THEN remove_exception(exception_phone_numbers, phone_number)
           ELSE IF op = "restore_exception_direct"
           THEN restore_exception_direct(exception_phone_numbers, phone_number)
           ELSE restore_exception(exception_phone_numbers, phone_number)
    /\ results' = <<Result(op, phone_number, PyNone)>>
    /\ AdminFrame

ServiceAdd(phone_number) ==
    /\ exception_phone_numbers' =
           add_exception_phone_number(exception_phone_numbers, phone_number,
                                      ContactName(phone_number), Category(phone_number))
    /\ results' = <<Result("add_exception_phone_number", phone_number, PyNone)>>
    /\ AdminFrame

NextTools ==
    \/ \E op \in ToolOps, phone_number \in RawNumbers : ToolOp(op, phone_number)
    \/ \E phone_number \in RawNumbers : ServiceAdd(phone_number)

SpecTools == InitAdmin /\ [][NextTools]_vars

\* C36: a number added through a tool is found by the webhook's lookup of the
\* same raw number, and a tool's remove or restore of a raw number acts on the
\* row that add_exception_phone_number made for it.
C36_ToolsAgreeWithLookup ==
    [][ LET op == results'[1].op
            r == results'[1].arg
            table == exception_phone_numbers
            made == {i \in 1..Len(table) :
                        table[i].phone_number = normalize_phone_number(r)}
        IN  /\ (op \in {"add_exception_direct", "add_exception"}
                  /\ Len(exception_phone_numbers') = Len(table) + 1) =>
                    is_exception_phone_number(exception_phone_numbers', r)
            /\ op \in {"remove_exception_direct", "remove_exception"} =>
                    \A i \in made : ~exception_phone_numbers'[i].is_active
            /\ op \in {"restore_exception_direct", "restore_exception"} =>
                    \A i \in made : exception_phone_numbers'[i].is_active ]_vars
---------------------------------------------------------------------------
\* src/database.py: two calls of add_exception_phone_number, each on its own
\* connection, their statements interleaved; `results` holds the two calls

\* the numbers of the two calls
RaceNumbers == MomSpellings \cup {ExE164}

\* a call of add_exception_phone_number: where it stands, its number, what it
\* returned (the value kept after the SELECT is what fetchone() gave)
AddCall(at, phone_number, value) == Result(at, phone_number, value)

InitRace ==
    /\ sessions = <<>>
    /\ calls = <<>>
    /\ conversation = <<>>
    /\ exception_phone_numbers = <<>>
    /\ response = Script(PyNone, NoUrl, NoUrl, NoDial, FALSE)
    /\ finalize_writes = <<>>
    /\ invocations = <<>>
    /\ \E first, second \in RaceNumbers :
           results = <<AddCall("called", first, PyNone), AddCall("called", second, PyNone)>>
    /\ event_loop = IdleLoop

\* database.py:463-469: SELECT id ... WHERE phone_number = ?; a row found
\* closes the connection and returns False
CheckExists(k) ==
    /\ results[k].op = "called"
    /\ results' = [results EXCEPT ![k] =
                       IF add_refused(exception_phone_numbers, results[k].arg)
                       THEN AddCall("returned", results[k].arg, <<"False">>)
                       ELSE AddCall("checked", results[k].arg, PyNone)]
    /\ UNCHANGED exception_phone_numbers
    /\ AdminFrame

\* database.py:470-482: INSERT, commit, return True; phone_number is UNIQUE
\* (database.py:115, 175), so the INSERT of a number another connection has
\* committed since the SELECT raises IntegrityError, which nothing here catches
InsertRow(k) ==
    /\ results[k].op = "checked"
    /\ IF add_refused(exception_phone_numbers, results[k].arg)
       THEN /\ results' = [results EXCEPT ![k] =
                               AddCall("returned", results[k].arg, <<"IntegrityError">>)]
            /\ UNCHANGED exception_phone_numbers
       ELSE /\ results' = [results EXCEPT ![k] =
                               AddCall("returned", results[k].arg, <<"True">>)]
            /\ exception_phone_numbers' =
                   add_exception_phone_number(exception_phone_numbers, results[k].arg,
                                              ContactName(results[k].arg),
                                              Category(results[k].arg))
    /\ AdminFrame

NextRace ==
    \/ \E k \in 1..2 : CheckExists(k)
    \/ \E k \in 1..2 : InsertRow(k)

SpecRace == InitRace /\ [][NextRace]_vars

\* C37: when both calls have returned and their numbers have one canonical
\* form, one returned True and the other False, neither raised, and the table
\* holds exactly one row for the number.
C37_ConcurrentAddsOneWins ==
    (/\ results[1].op = "returned"
     /\ results[2].op = "returned"
     /\ normalize_phone_number(results[1].arg) = normalize_phone_number(results[2].arg)) =>
        /\ {results[1].value, results[2].value} = {<<"True">>, <<"False">>}
        /\ Cardinality({i \in 1..Len(exception_phone_numbers) :
                           exception_phone_numbers[i].phone_number
                               = normalize_phone_number(results[1].arg)}) = 1
---------------------------------------------------------------------------
\* One buffered utterance per session: speech callbacks with two different
\* utterances, kept in `results` in the order they arrived

NextPending ==
    \/ twilio_voice(ExE164) /\ Idle
    \/ \E session_id \in DOMAIN sessions, retry_param \in {<<"0">>},
          user_speech \in FollowSpeechResults :
           SpeechCallback(session_id, retry_param, user_speech)
    \/ \E session_id \in DOMAIN sessions, model \in FollowModelOutcomes :
           twilio_process_ai(session_id, model) /\ Idle

SpecPending == Init /\ [][NextPending]_vars

\* the utterances the speech callbacks carried for the session, in order
Buffered(history, session_id) ==
    SelectSeq(history, LAMBDA r : r.arg = session_id)

\* C38: a speech callback with speech sets the session's pending utterance to
\* its own, whatever was buffered; a processing step that invokes the model
\* takes the utterance of the latest speech callback, removes it from the
\* session, appends it and nothing else of the caller to the history, and logs
\* it and no other utterance.
C38_OnePendingUtterance ==
    [][ /\ \A session_id \in DOMAIN sessions, retry_param \in {<<"0">>},
              user_speech \in FollowSpeechResults :
              ( /\ Strip(user_speech) # <<>>
                /\ response'.say = SayOneMoment
                /\ SpeechCallback(session_id, retry_param, user_speech) )
              => /\ sessions'[SessionOf(session_id)].pending_speech = user_speech
                 /\ LET arrived == Buffered(results', SessionOf(session_id))
                    IN  arrived[Len(arrived)].value = user_speech
        /\ \A t \in DOMAIN sessions :
              invocations'[t] # invocations[t] =>
                  LET arrived == Buffered(results, t)
                      latest == arrived[Len(arrived)].value
                      before == sessions[t].bot.history
                      after == sessions'[t].bot.history
                      asked == Append(before, [role |-> "user", content |-> latest])
                  IN  /\ Len(arrived) >= 1
                      /\ sessions[t].pending_speech = latest
                      /\ sessions'[t].pending_speech = PyNone
                      /\ after = asked
                           \/ (Len(after) = Len(asked) + 1
                                 /\ SubSeq(after, 1, Len(asked)) = asked
                                 /\ after[Len(after)].role = "assistant")
                      /\ \A i \in (Len(conversation) + 1)..Len(conversation') :
                            conversation'[i].speaker = "user" =>
                                conversation'[i].text = latest ]_vars

\* two utterances arrived for a session before a processing step: the step
\* took the second, and the first is neither in the history nor in the log
C38_Witness ==
    \E t \in DOMAIN sessions :
        /\ Buffered(results, t) = <<Result("speech", t, Utterance),
                                    Result("speech", t, <<"n","o">>)>>
        /\ invocations[t] = 1
        /\ sessions[t].pending_speech = PyNone
        /\ Len(sessions[t].bot.history) = 2
        /\ sessions[t].bot.history[1].content = <<"n","o">>
        /\ Len(conversation) = 2
        /\ conversation[1].text = <<"n","o">>
---------------------------------------------------------------------------
\* The model invocation raises during a processing step

\* caller turns of the call in the log
UserRows(call_id) ==
    SelectSeq(conversation, LAMBDA row : row.call_id = call_id /\ row.speaker = "user")

\* C39: a processing step whose model invocation raises leaves the session
\* with the pending utterance consumed, the caller's message appended to the
\* history and turn_index one higher, writes no turn row and no finalize, and
\* returns the apology script.
C39_RaisedInvocationKeepsTurn ==
    [][ response' = ErrorScript =>
          \A t \in DOMAIN sessions :
              (~NoSpeech(sessions[t].pending_speech) /\ twilio_process_ai(t, Raised)) =>
                  /\ sessions'[t].pending_speech = PyNone
                  /\ sessions'[t].bot.history =
                         Append(sessions[t].bot.history,
                                [role |-> "user", content |-> sessions[t].pending_speech])
                  /\ sessions'[t].turn_index = sessions[t].turn_index + 1
                  /\ sessions'[t].call_id = sessions[t].call_id
                  /\ invocations'[t] = invocations[t] + 1
                  /\ conversation' = conversation
                  /\ calls' = calls
                  /\ finalize_writes' = finalize_writes ]_vars

\* after one processing step whose invocation raised: turn_index 1, the
\* caller's message in the history, no caller turn in the log, no finalize
C39_Witness ==
    \E t \in DOMAIN sessions :
        /\ invocations[t] = 1
        /\ sessions[t].turn_index = 1
        /\ sessions[t].bot.history = <<[role |-> "user", content |-> <<"h","i">>]>>
        /\ sessions[t].pending_speech = PyNone
        /\ sessions[t].turn_index > Len(UserRows(sessions[t].call_id))
        /\ conversation = <<>>
        /\ calls[sessions[t].call_id].final_decision = Null
        /\ response = ErrorScript
---------------------------------------------------------------------------
\* Calls finalized by the allow-list bypass

====
